---- MODULE Spec2Model ----
(***************************************************************************)
(* A model of the github-scrapper pipeline (src/src/main.rs, github.rs,    *)
(* helper.rs, types.rs, elk.rs, sheets.rs).                                *)
(*                                                                         *)
(* Strings are sequences of non-empty tokens: the empty string is << >>,   *)
(* a literal is a one-token sequence, format!() concatenates.  Option<T>   *)
(* is a sequence of length 0 (None) or 1 (Some).                           *)
(***************************************************************************)
EXTENDS Integers, Sequences, FiniteSets, TLC

VARIABLES
    pc,                 \* position of main: "search", "sheet", "user", "done", "aborted"
    filtered_repo_urls, \* main.rs:115, the inputs of the search loop
    search_pos,         \* 1-based position of the search loop in filtered_repo_urls
    search_row_idx,     \* main.rs:117
    repos,              \* main.rs:101, the part of the repository column after row_skip
    extra_columns,      \* the enrichment columns the sheet holds besides the repository column
    idx,                \* main.rs:187, enumerate() index of the sheet loop
    row_reading,        \* main.rs:186
    owner,              \* main.rs:194, the user being expanded (pc = "user")
    user_repos,         \* main.rs:197, the repositories still to process for that user
    final_results,      \* main.rs:107
    esDocs,             \* document ids (commit SHAs) present in the index sink
    log,                \* history: the calls main issued, in order
    abortCause,         \* which call's error `?` propagated out of main ("" while running)
    results_json,       \* results.json: << >> until written, then << final_results >>
    \* check_api_request_limit (helper.rs:61-92), called on one response
    rl_pc,              \* "idle", "called", "sleeping", "returned", "next_call"
    remaining_header,   \* the response's X-RateLimit-Remaining header
    reset_header,       \* the response's X-RateLimit-Reset header
    clock,              \* the wall clock, in seconds
    now,                \* helper.rs:72, the clock as check_api_request_limit read it
    wait_time,          \* helper.rs:73
    sleeps,             \* history: the durations slept, in order
    notices,            \* history: the seconds printed by the progress notices, in order
    \* the functions of github.rs, request by request
    gh_pc,              \* "idle", "main", "search", "meta", "commit", "tree", "files", "pages",
                        \* "returned"
    gh_log,             \* history: the requests sent, responses received and rate-limit checks
    gh_calls,           \* the calls main has made into github.rs
    gh_fn,              \* the function that has returned (gh_pc = "returned")
    gh_ret,             \* the value it returned
    gh_url,             \* handle_github_repo_url: repo_url
    query_pos,          \* search_github_repos: 1-based position in queries
    seen_repos,         \* github.rs:366
    commit_info,        \* handle_github_repo_url: what get_last_commit_info returned
    default_branch,     \* github.rs:197
    limit,              \* process_repo: limit
    files,              \* github.rs:122, the retained files still to fetch
    scan_files_processed, \* github.rs:129, files_processed
    scan_results,       \* github.rs:137, results
    page,               \* github.rs:238
    repo_urls,          \* github.rs:237
    tree,               \* github.rs:120, the tree listing once it has decoded
    fetched,            \* history: path and text of each file of this scan that decoded
    gh_answers,         \* history: what each send() of the call in progress came back with
    \* one call of one function on arguments of its parameter types
    fn_pc,              \* "idle", "called", "returned"
    fn_name,            \* the function called
    fn_args,            \* its arguments
    fn_ret              \* the value it returned

rateVars == <<rl_pc, remaining_header, reset_header, clock, now, wait_time, sleeps, notices>>

ghVars == <<gh_pc, gh_log, gh_calls, gh_fn, gh_ret, gh_url, query_pos, seen_repos, commit_info,
            default_branch, limit, files, scan_files_processed, scan_results, page, repo_urls,
            tree, fetched, gh_answers>>

fnVars == <<fn_pc, fn_name, fn_args, fn_ret>>

mainVars == <<pc, filtered_repo_urls, search_pos, search_row_idx, repos, extra_columns,
              idx, row_reading, owner, user_repos, final_results, esDocs, log,
              abortCause, results_json>>

-----------------------------------------------------------------------------
(* Bounds of the model *)
MaxInputs == 3      \* inputs of one run: search results, sheet rows, a user's repositories
MaxReset == 130     \* latest reset timestamp a response names
MaxNow == 2         \* latest clock value at which a response arrives
MaxCalls == 1       \* calls main makes into github.rs
MaxPages == 2       \* non-empty pages of a user's repository listing
MaxItems == 1       \* hits of one code-search query

-----------------------------------------------------------------------------
(* Strings *)
EmptyStr == << >>
Lit(s) == <<s>>
str_is_empty(s) == Len(s) = 0

Digit(d) == <<"0", "1", "2", "3", "4", "5", "6", "7", "8", "9">>[d + 1]

RECURSIVE to_string(_)
to_string(n) == IF n < 10 THEN <<Digit(n)>>
                ELSE to_string(n \div 10) \o <<Digit(n % 10)>>

None == << >>
Some(x) == <<x>>

-----------------------------------------------------------------------------
(* Configuration of main *)
read_sheet_name == Lit("Cypherpunk")
write_sheet_name == "Cypherpunk"
search_write_sheet_name == "Search"
update_data_col == "U"
user_write_col == "AA"
search_update_data_col == "A"
row_skip == 1405
file_limit == 100

ALLOWED_EXTENSIONS == <<".toml", ".json", ".rs", ".ts">>
KEYWORDS == <<"ephemeral-rollups-sdk", "#[ephemeral]", "#[commit]", "#[delegate]",
              "delegate_account", "undelegate_account", "commit_accounts",
              "commit_and_undelegate_accounts">>

fields == <<"snapshot_url", "presentation_link", "technical_link", "files_processed",
            "location", "tracks", "contact">>

-----------------------------------------------------------------------------
(* types.rs: GitHubUpdateData *)
StringFields == {"commit_sha", "email", "keyword_matches", "commit_date", "name", "owner",
                 "repo_name", "snapshot_url", "origin", "file_types", "files_processed"}
OptionFields == {"location", "presentation_link", "technical_link", "tracks", "contact",
                 "website_link", "social_link", "wallet"}

GitHubUpdateDataDefault ==
    [commit_sha |-> EmptyStr, email |-> EmptyStr, keyword_counts |-> << >>,
     keyword_matches |-> EmptyStr, commit_date |-> EmptyStr, name |-> EmptyStr,
     owner |-> EmptyStr, repo_name |-> EmptyStr, snapshot_url |-> EmptyStr,
     origin |-> EmptyStr, file_types |-> EmptyStr, files_processed |-> EmptyStr,
     location |-> None, presentation_link |-> None, technical_link |-> None,
     tracks |-> None, contact |-> None, website_link |-> None, social_link |-> None,
     wallet |-> None]

\* serde_json::to_value of a GitHubUpdateData: one JSON value per field
JString(s) == [t |-> "String", v |-> s]
JNull == [t |-> "Null", v |-> << >>]
JObject(m) == [t |-> "Object", v |-> m]

to_value(r) ==
    [f \in DOMAIN r |->
        IF f = "keyword_counts" THEN JObject(r[f])
        ELSE IF f \in OptionFields
             THEN (IF Len(r[f]) = 0 THEN JNull ELSE JString(r[f][1]))
             ELSE JString(r[f])]

\* serde_json::from_value back into the struct
from_value(val) ==
    [f \in DOMAIN val |->
        IF f = "keyword_counts" THEN val[f].v
        ELSE IF f \in OptionFields
             THEN (IF val[f].t = "Null" THEN None ELSE Some(val[f].v))
             ELSE val[f].v]

json_value_is_empty(v) ==
    CASE v.t = "String" -> str_is_empty(v.v)
      [] v.t = "Null" -> TRUE
      [] v.t = "Object" -> DOMAIN v.v = {}
      [] OTHER -> FALSE

is_empty(r) ==
    LET json == to_value(r)
    IN \A f \in DOMAIN json : json_value_is_empty(json[f])

-----------------------------------------------------------------------------
(* sheets.rs: the columns read from the sheet.  Every column holds one     *)
(* value per data row (read_columns_from_sheet pushes a value for every    *)
(* header of every row), so all columns have the length of the repository  *)
(* column; the cell of column f at 0-based position p is a value of its    *)
(* own.                                                                    *)
ColumnLen == row_skip + Len(repos)
Cell(f, p) == <<f, "#">> \o to_string(p)
cleaned_columns_has(f) ==
    \/ f = "snapshot_url" /\ Len(repos) > 0
    \/ f \in extra_columns
\* columns.get(field).and_then(|values| values.get(row_index))
column_get(f, row_index) ==
    IF cleaned_columns_has(f) /\ row_index < ColumnLen THEN Some(Cell(f, row_index)) ELSE None

\* needs_update taking every named field for empty
needs_update_always(map, field) == TRUE
needs_update(map, field) ==
    IF field \in DOMAIN map
    THEN CASE map[field].t = "String" -> str_is_empty(map[field].v)
           [] map[field].t = "Null" -> TRUE
           [] OTHER -> FALSE
    ELSE TRUE

add_fields_if_exist(self, flds, row_index) ==
    LET map == to_value(self)
        named == {flds[i] : i \in 1..Len(flds)}
        new_map == [f \in DOMAIN map |->
                      IF f \in named /\ needs_update(map, f) /\ column_get(f, row_index) # None
                      THEN JString(column_get(f, row_index)[1])
                      ELSE map[f]]
    IN from_value(new_map)

-----------------------------------------------------------------------------
(* github.rs: URLs.  A URL is what Url::parse makes of it: whether it      *)
(* parsed, and its path segments (a trailing slash gives a last, empty     *)
(* segment).                                                               *)
Url(parsed, segments) == [parsed |-> parsed, segments |-> segments]
UrlEmpty == Url(FALSE, << >>)                       \* "" (main.rs:115)
RepoUrl(o, r) == Url(TRUE, <<o, r>>)                \* https://github.com/{o}/{r}
UserUrl(o) == Url(TRUE, <<o>>)                      \* https://github.com/{o}
RepoSlashUrl(o, r) == Url(TRUE, <<o, r, EmptyStr>>) \* https://github.com/{o}/{r}/

\* classify_github_url folding the capital A of an owner and of a repository name to a
classify_lowercasing(url) ==
    IF url.parsed
    THEN CASE Len(url.segments) = 1 ->
                [kind |-> "User", owner |-> url.segments[1], repo_name |-> << >>]
           [] Len(url.segments) = 2 ->
                [kind |-> "Repo",
                 owner |-> [i \in 1..Len(url.segments[1]) |->
                              IF url.segments[1][i] = "A" THEN "a" ELSE url.segments[1][i]],
                 repo_name |-> [i \in 1..Len(url.segments[2]) |->
                                  IF url.segments[2][i] = "A" THEN "a"
                                  ELSE url.segments[2][i]]]
           [] OTHER -> [kind |-> "Invalid", owner |-> << >>, repo_name |-> << >>]
    ELSE [kind |-> "Invalid", owner |-> << >>, repo_name |-> << >>]

classify_github_url(url) ==
    IF url.parsed
    THEN CASE Len(url.segments) = 1 ->
                [kind |-> "User", owner |-> url.segments[1], repo_name |-> EmptyStr]
           [] Len(url.segments) = 2 ->
                [kind |-> "Repo", owner |-> url.segments[1], repo_name |-> url.segments[2]]
           [] OTHER -> [kind |-> "Invalid", owner |-> EmptyStr, repo_name |-> EmptyStr]
    ELSE [kind |-> "Invalid", owner |-> EmptyStr, repo_name |-> EmptyStr]

parse_github_url(url) ==
    IF url.parsed /\ Len(url.segments) >= 2
    THEN Some([owner |-> url.segments[1], repo |-> url.segments[2]])
    ELSE None

\* slice.join(sep)
RECURSIVE join(_, _)
join(xs, sep) == IF Len(xs) = 0 THEN EmptyStr
                 ELSE IF Len(xs) = 1 THEN <<xs[1]>>
                 ELSE <<xs[1], sep>> \o join(Tail(xs), sep)

-----------------------------------------------------------------------------
(* helper.rs: format_for_mapping *)
\* format_for_mapping with keyword_matches the sum of the occurrences
RECURSIVE SumOfCounts(_)
SumOfCounts(m) ==
    IF DOMAIN m = {} THEN 0
    ELSE LET k == CHOOSE k \in DOMAIN m : TRUE
         IN m[k].count + SumOfCounts([j \in DOMAIN m \ {k} |-> m[j]])
format_for_mapping_summing_occurrences(o, repo_name, commit_sha, commit_date, keyword_counts, email, name, origin, file_types, files_processed) ==
    LET keyword_counts_json == [k \in DOMAIN keyword_counts |->
                                  [count |-> keyword_counts[k].count,
                                   files |-> keyword_counts[k].files]]
        keyword_matches == SumOfCounts(keyword_counts_json)
        snapshot_url == <<"https://github.com/">> \o o \o <<"/">> \o repo_name
                        \o <<"/tree/">> \o commit_sha
        origin_str == IF origin = None THEN Lit("unknown") ELSE origin[1]
    IN [GitHubUpdateDataDefault EXCEPT
          !.repo_name = repo_name,
          !.owner = o,
          !.commit_sha = commit_sha,
          !.email = email,
          !.name = name,
          !.snapshot_url = snapshot_url,
          !.commit_date = commit_date,
          !.keyword_counts = keyword_counts,
          !.keyword_matches = to_string(keyword_matches),
          !.origin = origin_str,
          !.file_types = file_types,
          !.files_processed = to_string(files_processed)]

format_for_mapping(o, repo_name, commit_sha, commit_date, keyword_counts, email, name, origin, file_types, files_processed) ==
    LET keyword_counts_json == [k \in DOMAIN keyword_counts |->
                                  [count |-> keyword_counts[k].count,
                                   files |-> keyword_counts[k].files]]
        keyword_matches == Cardinality(DOMAIN keyword_counts_json)
        snapshot_url == <<"https://github.com/">> \o o \o <<"/">> \o repo_name
                        \o <<"/tree/">> \o commit_sha
        origin_str == IF origin = None THEN Lit("unknown") ELSE origin[1]
    IN [GitHubUpdateDataDefault EXCEPT
          !.repo_name = repo_name,
          !.owner = o,
          !.commit_sha = commit_sha,
          !.email = email,
          !.name = name,
          !.snapshot_url = snapshot_url,
          !.commit_date = commit_date,
          !.keyword_counts = keyword_counts,
          !.keyword_matches = to_string(keyword_matches),
          !.origin = origin_str,
          !.file_types = file_types,
          !.files_processed = to_string(files_processed)]

-----------------------------------------------------------------------------
(* github.rs: what the network lets get_last_commit_info and process_repo  *)
(* return for one repository.                                              *)
Shas == {"sha1", "sha2"}
ProvOutcomes ==
    {None} \cup {Some([sha |-> Lit(s), date |-> Lit("2024-05-01T10:00:00Z"),
                       email |-> Lit("unknown"), name |-> Lit("dev")]) : s \in Shas}

Permalink(o, repo, path) ==
    <<"https://github.com/">> \o o \o <<"/">> \o repo \o <<"/blob/HEAD/">> \o path

ScanOutcomes(o, repo) ==
    {None,
     Some([map |-> << >>, file_types |-> join(ALLOWED_EXTENSIONS, ", "),
           files_processed |-> 0]),
     Some([map |-> ("delegate_account" :>
                      [count |-> 2, files |-> <<Permalink(o, repo, Lit("src/a.rs"))>>]),
           file_types |-> join(ALLOWED_EXTENSIONS, ", "),
           files_processed |-> 1])}

\* chrono::Utc::now().to_rfc3339()
NowRfc3339 == Lit("<now>")

HandleResult(ok, data, error) == [ok |-> ok, data |-> data, error |-> error]

\* handle_github_repo_url with the scan failure propagated to the caller as Err
\* (process_repo(..).await? in place of the match on None)
handle_propagating_scan_failure(repo_url, prov, scan, origin) ==
    LET p == parse_github_url(repo_url)
    IN IF p # None
       THEN LET info == IF prov # None THEN prov[1]
                        ELSE [sha |-> EmptyStr, date |-> NowRfc3339,
                              email |-> EmptyStr, name |-> EmptyStr]
            IN IF scan # None
               THEN HandleResult(TRUE,
                        format_for_mapping(p[1].owner, p[1].repo, info.sha, info.date,
                                           scan[1].map, info.email, info.name,
                                           Some(origin), scan[1].file_types,
                                           scan[1].files_processed),
                        None)
               ELSE HandleResult(FALSE, GitHubUpdateDataDefault,
                                 Some(Lit("Failed to process repo data")))
       ELSE HandleResult(TRUE, GitHubUpdateDataDefault, Some(Lit("Invalid GitHub URL")))

\* handle_github_repo_url with the scan failure reported without its message
handle_dropping_scan_error(repo_url, prov, scan, origin) ==
    LET p == parse_github_url(repo_url)
    IN IF p # None
       THEN LET info == IF prov # None THEN prov[1]
                        ELSE [sha |-> EmptyStr, date |-> NowRfc3339,
                              email |-> EmptyStr, name |-> EmptyStr]
            IN IF scan # None
               THEN HandleResult(TRUE,
                        format_for_mapping(p[1].owner, p[1].repo, info.sha, info.date,
                                           scan[1].map, info.email, info.name,
                                           Some(origin), scan[1].file_types,
                                           scan[1].files_processed),
                        None)
               ELSE HandleResult(TRUE, GitHubUpdateDataDefault, None)
       ELSE HandleResult(TRUE, GitHubUpdateDataDefault, Some(Lit("Invalid GitHub URL")))

\* handle_github_repo_url reporting a failed scan together with the provenance it had
handle_keeping_provenance_on_failure(repo_url, prov, scan, origin) ==
    LET p == parse_github_url(repo_url)
    IN IF p # None
       THEN LET info == IF prov # None THEN prov[1]
                        ELSE [sha |-> EmptyStr, date |-> NowRfc3339,
                              email |-> EmptyStr, name |-> EmptyStr]
            IN IF scan # None
               THEN HandleResult(TRUE,
                        format_for_mapping(p[1].owner, p[1].repo, info.sha, info.date,
                                           scan[1].map, info.email, info.name,
                                           Some(origin), scan[1].file_types,
                                           scan[1].files_processed),
                        None)
               ELSE HandleResult(TRUE,
                        [GitHubUpdateDataDefault EXCEPT !.owner = p[1].owner,
                                                        !.repo_name = p[1].repo,
                                                        !.commit_sha = info.sha,
                                                        !.commit_date = info.date],
                        Some(Lit("Failed to process repo data")))
       ELSE HandleResult(TRUE, GitHubUpdateDataDefault, Some(Lit("Invalid GitHub URL")))

\* handle_github_repo_url giving up on a repository whose provenance lookup failed
handle_aborting_without_provenance(repo_url, prov, scan, origin) ==
    LET p == parse_github_url(repo_url)
    IN IF p # None
       THEN IF scan # None /\ prov # None
            THEN HandleResult(TRUE,
                     format_for_mapping(p[1].owner, p[1].repo, prov[1].sha, prov[1].date,
                                        scan[1].map, prov[1].email, prov[1].name,
                                        Some(origin), scan[1].file_types,
                                        scan[1].files_processed),
                     None)
            ELSE HandleResult(TRUE, GitHubUpdateDataDefault,
                              Some(Lit("Failed to process repo data")))
       ELSE HandleResult(TRUE, GitHubUpdateDataDefault, Some(Lit("Invalid GitHub URL")))

handle_github_repo_url(repo_url, prov, scan, origin) ==
    LET p == parse_github_url(repo_url)
    IN IF p # None
       THEN LET info == IF prov # None THEN prov[1]
                        ELSE [sha |-> EmptyStr, date |-> NowRfc3339,
                              email |-> EmptyStr, name |-> EmptyStr]
            IN IF scan # None
               THEN HandleResult(TRUE,
                        format_for_mapping(p[1].owner, p[1].repo, info.sha, info.date,
                                           scan[1].map, info.email, info.name,
                                           Some(origin), scan[1].file_types,
                                           scan[1].files_processed),
                        None)
               ELSE HandleResult(TRUE, GitHubUpdateDataDefault,
                                 Some(Lit("Failed to process repo data")))
       ELSE HandleResult(TRUE, GitHubUpdateDataDefault, Some(Lit("Invalid GitHub URL")))

\* the scan outcomes the network can give for repo_url (none is asked for when it
\* does not parse)
ScanOutcomesOf(repo_url) ==
    IF parse_github_url(repo_url) # None
    THEN ScanOutcomes(parse_github_url(repo_url)[1].owner, parse_github_url(repo_url)[1].repo)
    ELSE {None}
ProvOutcomesOf(repo_url) ==
    IF parse_github_url(repo_url) # None THEN ProvOutcomes ELSE {None}

-----------------------------------------------------------------------------
(* The calls main issues, recorded in `log` in the order they are issued.  *)
(* ev: "handle" (handle_github_repo_url returned), "exists"                *)
(* (es_document_exists), "ingest" (ingest_via_logstash), "push"            *)
(* (final_results.push), "write_row", "write_to_cell", "skip" (the input   *)
(* was left without any write).  path: "search", "repo", "user",           *)
(* "invalid".  ok: the call returned Ok.  found: the answer of             *)
(* es_document_exists.                                                     *)
Ev(ev, path, row, col, data, error, ok, found) ==
    [ev |-> ev, path |-> path, row |-> row, col |-> col, data |-> data, error |-> error,
     ok |-> ok, found |-> found]

EvHandle(path, row, h) == Ev("handle", path, row, "", h.data, h.error, h.ok, FALSE)
EvExists(path, row, data, ok, found) == Ev("exists", path, row, "", data, None, ok, found)
EvIngest(path, row, data, ok) == Ev("ingest", path, row, "", data, None, ok, FALSE)
EvPush(path, row, data) == Ev("push", path, row, "", data, None, TRUE, FALSE)
EvWriteRow(path, row, col, data, ok) == Ev("write_row", path, row, col, data, None, ok, FALSE)
EvWriteCell(path, row, col, error, ok) ==
    Ev("write_to_cell", path, row, col, GitHubUpdateDataDefault, error, ok, FALSE)

\* What one pass through a loop body did: the calls issued, the new final_results
\* and index contents, and the call whose error left main ("" when none did).
Pass(evs, results, docs, cause) ==
    [evs |-> evs, results |-> results, docs |-> docs, cause |-> cause]

\* elk.rs:40-68: what the ingest endpoint answers: the request fails in transport
\* (sent = FALSE), or a response with an HTTP status arrives
IngestResponses == {[sent |-> FALSE, status |-> 0], [sent |-> TRUE, status |-> 200],
                    [sent |-> TRUE, status |-> 500]}
status_is_success(status) == 200 <= status /\ status <= 299
\* TRUE iff ingest_via_logstash returns Ok
ingest_via_logstash(resp) ==
    IF ~resp.sent THEN FALSE
    ELSE IF ~status_is_success(resp.status) THEN FALSE
    ELSE TRUE

\* elk.rs: the index holds the document iff its id is among the ingested ones
es_document_exists(doc_id) == doc_id \in esDocs

\* the effect of one ingest call on the index: a successful ingest stores the
\* document under its commit SHA
IndexAfterIngest(docs, data, ok) == IF ok THEN docs \cup {data.commit_sha} ELSE docs

----------------------------------------------------------------------------
(* main.rs:118-181, one iteration of the search loop *)
SearchBody(repo_url, prov, scan, exOk, resp, wrOk) ==
    LET ingOk == ingest_via_logstash(resp)
        h == handle_github_repo_url(repo_url, prov, scan, read_sheet_name)
        row == search_row_idx
        e_h == EvHandle("search", row, h)
        u0 == h.data
        document_exist == es_document_exists(u0.commit_sha)
        e_x == EvExists("search", row, u0, exOk, document_exist)
        ingesting == ~document_exist /\ ~is_empty(u0)
        u1 == IF ingesting THEN add_fields_if_exist(u0, fields, row) ELSE u0
        e_i == IF ingesting THEN <<EvIngest("search", row, u1, ingOk)>> ELSE << >>
        docs1 == IF ingesting THEN IndexAfterIngest(esDocs, u1, ingOk) ELSE esDocs
        e_p == IF ~document_exist THEN <<EvPush("search", row, u1)>> ELSE << >>
        res1 == IF ~document_exist THEN Append(final_results, u1) ELSE final_results
        e_w == EvWriteRow("search", row, search_update_data_col, u1, wrOk)
    IN IF ~h.ok
       THEN Pass(<<e_h>>, final_results, esDocs, "handle_github_repo_url")
       ELSE IF str_is_empty(u0.commit_sha)
       THEN Pass(<<e_h>>, final_results, esDocs, "continue")
       ELSE IF ~exOk
       THEN Pass(<<e_h, e_x>>, final_results, esDocs, "es_document_exists")
       ELSE IF ingesting /\ ~ingOk
       THEN Pass(<<e_h, e_x>> \o e_i, final_results, docs1, "ingest_via_logstash")
       ELSE IF ~wrOk
       THEN Pass(<<e_h, e_x>> \o e_i \o e_p \o <<e_w>>, res1, docs1, "write_row")
       ELSE Pass(<<e_h, e_x>> \o e_i \o e_p \o <<e_w>>, res1, docs1, "")

(* main.rs:274-334, the Repo branch of the sheet loop *)
RepoBody(o, repo_name, prov, scan, resp, wrOk) ==
    LET ingOk == ingest_via_logstash(resp)
        repo_url == RepoUrl(o, repo_name)
        h == handle_github_repo_url(repo_url, prov, scan, read_sheet_name)
        row == row_reading
        e_h == EvHandle("repo", row, h)
        u0 == h.data
        ingesting == ~is_empty(u0)
        u1 == IF ingesting THEN add_fields_if_exist(u0, fields, row) ELSE u0
        e_i == IF ingesting THEN <<EvIngest("repo", row, u1, ingOk)>> ELSE << >>
        docs1 == IF ingesting THEN IndexAfterIngest(esDocs, u1, ingOk) ELSE esDocs
        e_p == EvPush("repo", row, u1)
        res1 == Append(final_results, u1)
        e_w == IF h.error # None
               THEN EvWriteCell("repo", row, update_data_col, h.error, wrOk)
               ELSE EvWriteRow("repo", row, update_data_col, u1, wrOk)
    IN IF ~h.ok
       THEN Pass(<<e_h>>, final_results, esDocs, "handle_github_repo_url")
       ELSE IF ingesting /\ ~ingOk
       THEN Pass(<<e_h>> \o e_i, final_results, docs1, "ingest_via_logstash")
       ELSE IF ~wrOk
       THEN Pass(<<e_h>> \o e_i \o <<e_p, e_w>>, res1, docs1,
                 IF h.error # None THEN "write_to_cell" ELSE "write_row")
       ELSE Pass(<<e_h>> \o e_i \o <<e_p, e_w>>, res1, docs1, "")

(* main.rs:199-269, one iteration of the loop over a user's repositories *)
UserRepoBody(repo_url, prov, scan, resp, wr1Ok, wr2Ok) ==
    LET ingOk == ingest_via_logstash(resp)
        h == handle_github_repo_url(repo_url, prov, scan, read_sheet_name)
        row == row_reading
        e_h == EvHandle("user", row, h)
        u0 == h.data
        ingesting == ~is_empty(u0)
        u1 == IF ingesting THEN add_fields_if_exist(u0, fields, row) ELSE u0
        e_i == IF ingesting THEN <<EvIngest("user", row, u1, ingOk)>> ELSE << >>
        docs1 == IF ingesting THEN IndexAfterIngest(esDocs, u1, ingOk) ELSE esDocs
        e_p == EvPush("user", row, u1)
        res1 == Append(final_results, u1)
        e_o == EvWriteRow("user", row, user_write_col, GitHubUpdateDataDefault, wr1Ok)
        e_w == IF h.error # None
               THEN EvWriteCell("user", row, update_data_col, h.error, wr2Ok)
               ELSE EvWriteRow("user", row, update_data_col, u1, wr2Ok)
    IN IF ~h.ok
       THEN Pass(<<e_h>>, final_results, esDocs, "handle_github_repo_url")
       ELSE IF u0.keyword_matches # Lit("0") \/ is_empty(u0)
       THEN Pass(<<e_h>>, final_results, esDocs, "continue")
       ELSE IF ingesting /\ ~ingOk
       THEN Pass(<<e_h>> \o e_i, final_results, docs1, "ingest_via_logstash")
       ELSE IF ~wr1Ok
       THEN Pass(<<e_h>> \o e_i \o <<e_p, e_o>>, res1, docs1, "write_row")
       ELSE IF ~wr2Ok
       THEN Pass(<<e_h>> \o e_i \o <<e_p, e_o, e_w>>, res1, docs1,
                 IF h.error # None THEN "write_to_cell" ELSE "write_row")
       ELSE Pass(<<e_h>> \o e_i \o <<e_p, e_o, e_w>>, res1, docs1, "")

Aborts(pass) == pass.cause \notin {"", "continue"}

-----------------------------------------------------------------------------
(* The inputs of a run *)
Owners == {Lit("acme")}
RepoNames == {Lit("widgets"), Lit("gadgets")}

\* the sequences without repetition over S of length at most n
RECURSIVE DistinctSeqs(_, _)
DistinctSeqs(S, n) ==
    IF n = 0 THEN {<< >>}
    ELSE LET shorter == DistinctSeqs(S, n - 1)
         IN shorter \cup
            {Append(qx[1], qx[2]) :
                qx \in {pr \in shorter \X S : \A i \in 1..Len(pr[1]) : pr[1][i] # pr[2]}}

\* the sequences over S of length at most n
SeqsUpTo(S, n) == UNION {[1..k -> S] : k \in 0..n}

GitHubRepoUrls == {RepoUrl(o, r) : o \in Owners, r \in RepoNames}

\* main.rs:114-115: the list is the literal [""], or what search_github_repos
\* returns: repository URLs, each once
SearchInputs == {<<UrlEmpty>>} \cup DistinctSeqs(GitHubRepoUrls, MaxInputs)

\* the cells of the repository column: a repository, a user or organisation, a
\* repository URL with a trailing slash, an empty cell
SheetUrls == {RepoUrl(Lit("acme"), Lit("widgets")), UserUrl(Lit("acme")),
              RepoSlashUrl(Lit("acme"), Lit("widgets")), UrlEmpty}
SheetInputs == SeqsUpTo(SheetUrls, MaxInputs)

\* github.rs:232-281: what fetch_user_repos returns for a user
UserRepoLists(o, n) == DistinctSeqs({RepoUrl(o, r) : r \in RepoNames}, n)

EvInput(path, row) ==
    Ev("input", path, row, "", GitHubUpdateDataDefault, None, TRUE, FALSE)

-----------------------------------------------------------------------------
(* main *)
InitMain ==
    /\ pc = "search"
    /\ filtered_repo_urls \in SearchInputs
    /\ search_pos = 1
    /\ search_row_idx = 2
    /\ repos \in SheetInputs
    /\ Len(filtered_repo_urls) + Len(repos) <= MaxInputs
    /\ extra_columns = {"location", "files_processed"}
    /\ idx = row_skip
    /\ row_reading = 2 + row_skip
    /\ owner = EmptyStr
    /\ user_repos = << >>
    /\ final_results = << >>
    /\ esDocs = {}
    /\ log = << >>
    /\ abortCause = ""
    /\ results_json = None

\* the rate limiter at rest
IdleRate ==
    /\ rl_pc = "idle"
    /\ remaining_header = None
    /\ reset_header = None
    /\ clock = 0
    /\ now = 0
    /\ wait_time = 0
    /\ sleeps = << >>
    /\ notices = << >>

\* github.rs at rest
GhAtRest(p) ==
    /\ gh_pc = p
    /\ gh_log = << >>
    /\ gh_calls = 0
    /\ gh_fn = ""
    /\ gh_ret = None
    /\ gh_url = UrlEmpty
    /\ query_pos = 1
    /\ seen_repos = {}
    /\ commit_info = None
    /\ default_branch = EmptyStr
    /\ limit = 0
    /\ files = << >>
    /\ scan_files_processed = 0
    /\ scan_results = << >>
    /\ page = 1
    /\ repo_urls = << >>
    /\ tree = None
    /\ fetched = << >>
    /\ gh_answers = << >>
IdleGh == GhAtRest("idle")

\* no function called on its own
IdleFn ==
    /\ fn_pc = "idle"
    /\ fn_name = ""
    /\ fn_args = << >>
    /\ fn_ret = << >>

\* the part of a pass that is the same in every loop
Record(pass, input) ==
    /\ log' = log \o input \o pass.evs
    /\ final_results' = pass.results
    /\ esDocs' = pass.docs
    /\ abortCause' = IF Aborts(pass) THEN pass.cause ELSE ""

SearchIter ==
    /\ pc = "search"
    /\ search_pos <= Len(filtered_repo_urls)
    /\ \E prov \in ProvOutcomesOf(filtered_repo_urls[search_pos]),
          scan \in ScanOutcomesOf(filtered_repo_urls[search_pos]),
          exOk \in BOOLEAN, resp \in IngestResponses, wrOk \in BOOLEAN :
          LET pass == SearchBody(filtered_repo_urls[search_pos], prov, scan, exOk, resp, wrOk)
          IN /\ Record(pass, <<EvInput("search", search_row_idx)>>)
             /\ IF Aborts(pass)
                THEN /\ pc' = "aborted"
                     /\ UNCHANGED <<search_pos, search_row_idx>>
                ELSE /\ pc' = pc
                     /\ search_pos' = search_pos + 1
                     /\ search_row_idx' = IF pass.cause = "continue" THEN search_row_idx
                                          ELSE search_row_idx + 1
    /\ UNCHANGED <<rateVars, ghVars, fnVars, filtered_repo_urls, repos, extra_columns, idx, row_reading, owner,
                   user_repos, results_json>>

SearchDone ==
    /\ pc = "search"
    /\ search_pos > Len(filtered_repo_urls)
    /\ pc' = "sheet"
    /\ UNCHANGED <<rateVars, ghVars, fnVars, filtered_repo_urls, search_pos, search_row_idx, repos, extra_columns, idx,
                   row_reading, owner, user_repos, final_results, esDocs, log, abortCause,
                   results_json>>

\* main.rs:270, 333, 338: row_reading += 1
\* next_row leaving a row out
next_row_skipping(r) == r + 2
next_row(r) == r + 1

\* the element enumerate() yields at index idx
CurrentRepoUrl == repos[idx - row_skip + 1]
SheetLoopHasNext == idx - row_skip + 1 <= Len(repos)

\* the inputs the run has taken up so far, and those of the sheet still to come
InputsSoFar ==
    Cardinality({i \in 1..Len(log) : log[i].ev = "input" \/
                                     (log[i].ev = "handle" /\ log[i].path = "user")})
    + (Len(repos) - (idx - row_skip))

SheetUser ==
    /\ pc = "sheet"
    /\ SheetLoopHasNext
    /\ classify_github_url(CurrentRepoUrl).kind = "User"
    /\ owner' = classify_github_url(CurrentRepoUrl).owner
    /\ user_repos' \in UserRepoLists(classify_github_url(CurrentRepoUrl).owner,
                                     MaxInputs - InputsSoFar)
    /\ log' = Append(log, EvInput("sheet", row_reading))
    /\ pc' = "user"
    /\ UNCHANGED <<rateVars, ghVars, fnVars, filtered_repo_urls, search_pos, search_row_idx, repos, extra_columns, idx,
                   row_reading, final_results, esDocs, abortCause, results_json>>

UserRepoIter ==
    /\ pc = "user"
    /\ user_repos # << >>
    /\ \E prov \in ProvOutcomesOf(Head(user_repos)), scan \in ScanOutcomesOf(Head(user_repos)),
          resp \in IngestResponses, wr1Ok \in BOOLEAN, wr2Ok \in BOOLEAN :
          LET pass == UserRepoBody(Head(user_repos), prov, scan, resp, wr1Ok, wr2Ok)
          IN /\ Record(pass, << >>)
             /\ IF Aborts(pass)
                THEN pc' = "aborted" /\ UNCHANGED user_repos
                ELSE pc' = pc /\ user_repos' = Tail(user_repos)
    /\ UNCHANGED <<rateVars, ghVars, fnVars, filtered_repo_urls, search_pos, search_row_idx, repos, extra_columns, idx,
                   row_reading, owner, results_json>>

UserDone ==
    /\ pc = "user"
    /\ user_repos = << >>
    /\ row_reading' = next_row(row_reading)
    /\ idx' = idx + 1
    /\ pc' = "sheet"
    /\ UNCHANGED <<rateVars, ghVars, fnVars, filtered_repo_urls, search_pos, search_row_idx, repos, extra_columns,
                   owner, user_repos, final_results, esDocs, log, abortCause, results_json>>

SheetRepo ==
    /\ pc = "sheet"
    /\ SheetLoopHasNext
    /\ classify_github_url(CurrentRepoUrl).kind = "Repo"
    /\ \E prov \in ProvOutcomes,
          scan \in ScanOutcomes(classify_github_url(CurrentRepoUrl).owner,
                                classify_github_url(CurrentRepoUrl).repo_name),
          resp \in IngestResponses, wrOk \in BOOLEAN :
          LET pass == RepoBody(classify_github_url(CurrentRepoUrl).owner,
                               classify_github_url(CurrentRepoUrl).repo_name,
                               prov, scan, resp, wrOk)
          IN /\ Record(pass, <<EvInput("sheet", row_reading)>>)
             /\ IF Aborts(pass)
                THEN pc' = "aborted" /\ UNCHANGED <<idx, row_reading>>
                ELSE pc' = pc /\ idx' = idx + 1 /\ row_reading' = next_row(row_reading)
    /\ UNCHANGED <<rateVars, ghVars, fnVars, filtered_repo_urls, search_pos, search_row_idx, repos, extra_columns,
                   owner, user_repos, results_json>>

SheetInvalid ==
    /\ pc = "sheet"
    /\ SheetLoopHasNext
    /\ classify_github_url(CurrentRepoUrl).kind = "Invalid"
    /\ log' = Append(log, EvInput("sheet", row_reading))
    /\ row_reading' = next_row(row_reading)
    /\ idx' = idx + 1
    /\ UNCHANGED <<rateVars, ghVars, fnVars, pc, filtered_repo_urls, search_pos, search_row_idx, repos, extra_columns,
                   owner, user_repos, final_results, esDocs, abortCause, results_json>>

\* main.rs:343-349
SaveResults ==
    /\ pc = "sheet"
    /\ ~SheetLoopHasNext
    /\ results_json' = Some(final_results)
    /\ pc' = "done"
    /\ UNCHANGED <<rateVars, ghVars, fnVars, filtered_repo_urls, search_pos, search_row_idx, repos, extra_columns, idx,
                   row_reading, owner, user_repos, final_results, esDocs, log, abortCause>>

vars == <<mainVars, rateVars, ghVars, fnVars>>

Next ==
    \/ SearchIter
    \/ SearchDone
    \/ SheetUser
    \/ UserRepoIter
    \/ UserDone
    \/ SheetRepo
    \/ SheetInvalid
    \/ SaveResults

Init == InitMain /\ IdleRate /\ IdleGh /\ IdleFn

Spec == Init /\ [][Next]_vars

-----------------------------------------------------------------------------
(* Reading the log *)
LogIdx == 1..Len(log)
IsEv(i, ev) == log[i].ev = ev
\* the record columns of the two sheets (main.rs:164, 248, 258, 311, 321)
RecordCols == {update_data_col, search_update_data_col}
IsRowWrite(i) == log[i].ev \in {"write_row", "write_to_cell"} /\ log[i].col \in RecordCols
\* no input is taken up between log positions i and j
SameInput(i, j) == \A k \in (i + 1)..j : ~IsEv(k, "input")
\* no repository is handed to handle_github_repo_url between log positions i and j
SameRecord(i, j) == \A k \in (i + 1)..j : ~IsEv(k, "handle")
\* the pass that logged position i has run to its end
PassEnded(i) ==
    \/ \E k \in (i + 1)..Len(log) : IsEv(k, "input")
    \/ pc \in {"search", "sheet", "done"}

-----------------------------------------------------------------------------
(* C1: an ingest call is issued for a record only after es_document_exists *)
(* was asked about that record's commit SHA and answered false, and no two *)
(* ingest calls carry the same non-empty commit SHA.                       *)
C1_IngestOnlyAfterExistsFalse ==
    /\ \A i \in LogIdx :
          IsEv(i, "ingest") =>
             \E j \in 1..(i - 1) :
                /\ IsEv(j, "exists") /\ log[j].ok /\ ~log[j].found
                /\ log[j].data.commit_sha = log[i].data.commit_sha
                /\ SameRecord(j, i)
    /\ \A i, j \in LogIdx :
          (/\ i < j /\ IsEv(i, "ingest") /\ IsEv(j, "ingest")
           /\ log[i].ok
           /\ ~str_is_empty(log[i].data.commit_sha))
          => log[i].data.commit_sha # log[j].data.commit_sha

(* C2: no ingest call is issued for a record whose commit SHA is empty.    *)
C2_NoIngestWithEmptySha ==
    \A i \in LogIdx : IsEv(i, "ingest") => ~str_is_empty(log[i].data.commit_sha)

(* C3: a failed ingest does not stop the run: the record is still pushed   *)
(* to final_results and its spreadsheet row is still written, and main     *)
(* does not leave with the ingest error.                                   *)
C3_FailedIngestDoesNotStopRun ==
    /\ abortCause # "ingest_via_logstash"
    /\ \A i \in LogIdx :
          (IsEv(i, "ingest") /\ ~log[i].ok) =>
             /\ \E j \in (i + 1)..Len(log) :
                   IsEv(j, "push") /\ log[j].data = log[i].data /\ SameRecord(i, j)
             /\ \E j \in (i + 1)..Len(log) :
                   IsRowWrite(j) /\ log[j].row = log[i].row /\ SameRecord(i, j)

(* C4: handle_github_repo_url returns Ok for every outcome of URL parsing, *)
(* provenance lookup and tree scan, with the default record beside every   *)
(* error message; main never leaves because of it, and a run that is not   *)
(* stopped by a sink call takes up every input.                            *)
C4_HandleNeverFails ==
    /\ \A i \in LogIdx :
          IsEv(i, "handle") =>
             /\ log[i].ok
             /\ (log[i].error # None => log[i].data = GitHubUpdateDataDefault)
    /\ abortCause \in {"", "es_document_exists", "ingest_via_logstash", "write_row",
                       "write_to_cell"}
    /\ pc = "done" =>
          /\ search_pos = Len(filtered_repo_urls) + 1
          /\ idx = row_skip + Len(repos)
          /\ Cardinality({i \in LogIdx : IsEv(i, "input")})
                = Len(filtered_repo_urls) + Len(repos)

\* a scan failure and a provenance failure were absorbed and a later input was taken up
C4_Witness ==
    /\ pc = "done"
    /\ \E i, j, k \in LogIdx :
          /\ i < j /\ j < k
          /\ IsEv(i, "handle") /\ log[i].error = Some(Lit("Failed to process repo data"))
          /\ IsEv(j, "handle") /\ log[j].error = None
          /\ str_is_empty(log[j].data.commit_sha)
          /\ IsEv(k, "input")

(* C5: every input consumes exactly one row index and has a write at that  *)
(* index, and the rows written in one loop strictly increase in input      *)
(* order.                                                                  *)
C5_EveryInputWritesItsRow ==
    /\ \A i \in LogIdx :
          (IsEv(i, "input") /\ PassEnded(i)) =>
             \E j \in (i + 1)..Len(log) :
                IsRowWrite(j) /\ log[j].row = log[i].row /\ SameInput(i, j)
    /\ \A i, j \in LogIdx :
          (/\ i < j /\ IsEv(i, "input") /\ IsEv(j, "input")
           /\ log[i].path = log[j].path)
          => log[i].row < log[j].row
    /\ \A i, j \in LogIdx :
          (/\ i < j /\ IsRowWrite(i) /\ IsRowWrite(j)
           /\ (log[i].path = "search") = (log[j].path = "search"))
          => log[i].row < log[j].row

(* C6: an error message returned for a repository is written to the error *)
(* cell of that repository's row, and no success row is written for it.    *)
C6_ErrorWrittenToErrorCell ==
    \A i \in LogIdx :
       (IsEv(i, "handle") /\ log[i].ok /\ log[i].error # None) =>
          /\ \E j \in (i + 1)..Len(log) :
                /\ IsEv(j, "write_to_cell") /\ log[j].col = update_data_col
                /\ log[j].row = log[i].row /\ log[j].error = log[i].error
                /\ SameRecord(i, j)
          /\ \A j \in (i + 1)..Len(log) :
                (IsEv(j, "write_row") /\ log[j].col \in RecordCols /\ SameRecord(i, j))
                => FALSE

(* C7: no ingest call carries a record for which is_empty() holds, and no  *)
(* success row is written with such a record.                              *)
C7_EmptyRecordNeverReachesSink ==
    \A i \in LogIdx :
       \/ IsEv(i, "ingest")
       \/ (IsEv(i, "write_row") /\ log[i].col \in RecordCols)
       => ~is_empty(log[i].data)

\* an empty record was returned and kept from both sinks, and a non-empty one reached both
C7_Witness ==
    /\ pc = "done"
    /\ \E i, j, k \in LogIdx :
          /\ IsEv(i, "handle") /\ is_empty(log[i].data)
          /\ IsEv(j, "ingest") /\ log[j].ok
          /\ IsEv(k, "write_row") /\ log[k].col \in RecordCols /\ log[k].ok

-----------------------------------------------------------------------------
(* helper.rs:61-92: check_api_request_limit.                               *)
(* A header value is its bytes: whether they are visible ASCII (to_str()   *)
(* succeeds) and, if so, the text as a sequence of characters.             *)
HeaderText(text) == [ascii |-> TRUE, text |-> text]
HeaderOpaque == [ascii |-> FALSE, text |-> << >>]

\* HeaderValue::to_str().unwrap_or("0")
to_str_or_0(h) == IF h.ascii THEN h.text ELSE <<"0">>

IsDigit(c) == \E d \in 0..9 : Digit(d) = c
DigitVal(c) == CHOOSE d \in 0..9 : Digit(d) = c

RECURSIVE digits_value(_)
digits_value(ds) ==
    IF Len(ds) = 0 THEN 0
    ELSE digits_value(SubSeq(ds, 1, Len(ds) - 1)) * 10 + DigitVal(ds[Len(ds)])

RECURSIVE strip_zeros(_)
strip_zeros(ds) == IF Len(ds) > 1 /\ ds[1] = "0" THEN strip_zeros(Tail(ds)) ELSE ds

\* a <= b for digit strings without leading zeros
RECURSIVE digits_leq(_, _)
digits_leq(a, b) ==
    IF Len(a) # Len(b) THEN Len(a) < Len(b)
    ELSE IF Len(a) = 0 THEN TRUE
    ELSE IF a[1] # b[1] THEN DigitVal(a[1]) < DigitVal(b[1])
    ELSE digits_leq(Tail(a), Tail(b))

I32MaxDigits == <<"2", "1", "4", "7", "4", "8", "3", "6", "4", "7">>
I32MinDigits == <<"2", "1", "4", "7", "4", "8", "3", "6", "4", "8">>
I64MaxDigits == <<"9", "2", "2", "3", "3", "7", "2", "0", "3", "6", "8", "5", "4", "7", "7",
                  "5", "8", "0", "7">>
I64MinDigits == <<"9", "2", "2", "3", "3", "7", "2", "0", "3", "6", "8", "5", "4", "7", "7",
                  "5", "8", "0", "8">>

\* str::parse for a signed integer type whose largest and smallest values have the
\* digits maxDigits and minDigits: an optional sign, then at least one digit, all
\* digits, in range.  None is Err.
parse_signed(text, maxDigits, minDigits) ==
    LET negative == Len(text) > 0 /\ text[1] = "-"
        signed == Len(text) > 0 /\ text[1] \in {"-", "+"}
        ds == IF signed THEN Tail(text) ELSE text
        mag == strip_zeros(ds)
    IN IF Len(ds) = 0 \/ \E i \in 1..Len(ds) : ~IsDigit(ds[i]) THEN None
       ELSE IF negative
       THEN (IF ~digits_leq(mag, minDigits) THEN None
             ELSE IF mag = minDigits
                  THEN Some(0 - digits_value(SubSeq(maxDigits, 1, Len(maxDigits))) - 1)
                  ELSE Some(0 - digits_value(mag)))
       ELSE (IF ~digits_leq(mag, maxDigits) THEN None ELSE Some(digits_value(mag)))

parse_i32(text) == parse_signed(text, I32MaxDigits, I32MinDigits)
\* (the timestamps of the model stay below 2^31, the integers TLC computes with)
parse_i64(text) == parse_signed(text, I64MaxDigits, I64MinDigits)

unwrap_or(opt, default) == IF opt = None THEN default ELSE opt[1]

\* helper.rs:63-67
rem_of(h) == unwrap_or(parse_i32(to_str_or_0(h)), 0)
\* helper.rs:71
reset_ts_of(h) == unwrap_or(parse_i64(to_str_or_0(h)), 0)

Min(a, b) == IF a <= b THEN a ELSE b
SleepChunk == 60

\* the chunk with the clamp to the remaining wait left out
sleep_duration_unclamped(w) == SleepChunk

\* helper.rs:80
sleep_duration(w) == Min(w, SleepChunk)

Notice(kind, secs) == [kind |-> kind, secs |-> secs]

\* the main program at rest
IdleMain ==
    /\ pc = "idle"
    /\ filtered_repo_urls = << >>
    /\ search_pos = 1
    /\ search_row_idx = 2
    /\ repos = << >>
    /\ extra_columns = {}
    /\ idx = row_skip
    /\ row_reading = 2 + row_skip
    /\ owner = EmptyStr
    /\ user_repos = << >>
    /\ final_results = << >>
    /\ esDocs = {}
    /\ log = << >>
    /\ abortCause = ""
    /\ results_json = None

RemainingHeaders ==
    {None, Some(HeaderOpaque)} \cup
    {Some(HeaderText(t)) :
        t \in {<< >>, <<"a", "b", "c">>, <<"0">>, <<"1">>, <<"2">>, <<"5", "0">>,
               <<"-", "1">>, <<"+", "1">>, <<"1", " ">>,
               <<"9", "9", "9", "9", "9", "9", "9", "9", "9", "9", "9">>}}

ResetHeaders ==
    {None, Some(HeaderOpaque), Some(HeaderText(<<"s", "o", "o", "n">>))} \cup
    {Some(HeaderText(to_string(t))) : t \in 0..MaxReset}

\* a response has arrived and check_api_request_limit is called on it
InitRate ==
    /\ IdleMain
    /\ IdleGh
    /\ IdleFn
    /\ rl_pc = "called"
    /\ remaining_header \in RemainingHeaders
    /\ reset_header \in ResetHeaders
    /\ clock \in 0..MaxNow
    /\ now = 0
    /\ wait_time = 0
    /\ sleeps = << >>
    /\ notices = << >>

\* helper.rs:62-77: up to the first test of the while loop
RlCheck ==
    /\ rl_pc = "called"
    /\ IF remaining_header # None /\ rem_of(remaining_header[1]) <= 1
          /\ reset_header # None
       THEN /\ now' = clock
            /\ wait_time' = reset_ts_of(reset_header[1]) - clock
            /\ IF wait_time' > 0
               THEN /\ notices' = Append(notices, Notice("hit", wait_time'))
                    /\ rl_pc' = "sleeping"
               ELSE /\ rl_pc' = "returned"
                    /\ UNCHANGED notices
       ELSE /\ rl_pc' = "returned"
            /\ UNCHANGED <<now, wait_time, notices>>
    /\ UNCHANGED <<mainVars, ghVars, fnVars, remaining_header, reset_header, clock, sleeps>>

\* helper.rs:79-87: one turn of the while loop
RlSleep ==
    /\ rl_pc = "sleeping"
    /\ wait_time > 0
    /\ sleeps' = Append(sleeps, sleep_duration(wait_time))
    /\ clock' = clock + sleep_duration(wait_time)
    /\ wait_time' = wait_time - sleep_duration(wait_time)
    /\ notices' = IF wait_time' > 0 THEN Append(notices, Notice("still", wait_time'))
                  ELSE notices
    /\ rl_pc' = IF wait_time' > 0 THEN "sleeping" ELSE "returned"
    /\ UNCHANGED <<mainVars, ghVars, fnVars, remaining_header, reset_header, now>>

\* the caller goes on to its next GitHub call
RlNextCall ==
    /\ rl_pc = "returned"
    /\ rl_pc' = "next_call"
    /\ UNCHANGED <<mainVars, ghVars, fnVars, remaining_header, reset_header, clock, now, wait_time, sleeps,
                   notices>>

NextRate == RlCheck \/ RlSleep \/ RlNextCall

SpecRate == InitRate /\ [][NextRate]_vars

\* tokio's sleep returns and the caller runs on
FairSpecRate == SpecRate /\ WF_vars(RlCheck) /\ WF_vars(RlSleep) /\ WF_vars(RlNextCall)

-----------------------------------------------------------------------------
(* github.rs request by request.  Here a string is the sequence of its     *)
(* characters, so that lower-casing, suffix tests and substring counts are *)
(* computed as the code computes them.                                     *)
UpperCase == <<"A", "B", "C", "D", "E", "F", "G", "H", "I", "J", "K", "L", "M", "N", "O", "P", "Q", "R", "S", "T", "U", "V", "W", "X", "Y", "Z">>
LowerCase == <<"a", "b", "c", "d", "e", "f", "g", "h", "i", "j", "k", "l", "m", "n", "o", "p", "q", "r", "s", "t", "u", "v", "w", "x", "y", "z">>

\* char::to_lowercase on the ASCII letters
char_to_lowercase(c) ==
    IF \E i \in 1..Len(UpperCase) : UpperCase[i] = c
    THEN LowerCase[CHOOSE i \in 1..Len(UpperCase) : UpperCase[i] = c]
    ELSE c
to_lowercase(s) == [i \in 1..Len(s) |-> char_to_lowercase(s[i])]

\* str::ends_with, str::contains
ends_with(s, suffix) ==
    Len(suffix) <= Len(s) /\ SubSeq(s, Len(s) - Len(suffix) + 1, Len(s)) = suffix
contains(s, pat) ==
    \E i \in 1..(Len(s) + 1) :
        i + Len(pat) - 1 <= Len(s) /\ SubSeq(s, i, i + Len(pat) - 1) = pat

\* str::matches(pat).count(): the occurrences found from the left, each search
\* resuming after the end of the previous occurrence
RECURSIVE matches_count(_, _)
matches_count(text, pat) ==
    IF Len(text) < Len(pat) THEN 0
    ELSE IF SubSeq(text, 1, Len(pat)) = pat
         THEN 1 + matches_count(SubSeq(text, Len(pat) + 1, Len(text)), pat)
         ELSE matches_count(Tail(text), pat)

\* the characters of the entries of KEYWORDS and ALLOWED_EXTENSIONS (main.rs:52-62)
KeywordChars ==
    ("ephemeral-rollups-sdk" :> <<"e", "p", "h", "e", "m", "e", "r", "a", "l", "-", "r", "o", "l", "l", "u", "p", "s", "-", "s", "d", "k">>)
    @@ ("#[ephemeral]" :> <<"#", "[", "e", "p", "h", "e", "m", "e", "r", "a", "l", "]">>)
    @@ ("#[commit]" :> <<"#", "[", "c", "o", "m", "m", "i", "t", "]">>)
    @@ ("#[delegate]" :> <<"#", "[", "d", "e", "l", "e", "g", "a", "t", "e", "]">>)
    @@ ("delegate_account" :> <<"d", "e", "l", "e", "g", "a", "t", "e", "_", "a", "c", "c", "o", "u", "n", "t">>)
    @@ ("undelegate_account" :> <<"u", "n", "d", "e", "l", "e", "g", "a", "t", "e", "_", "a", "c", "c", "o", "u", "n", "t">>)
    @@ ("commit_accounts" :> <<"c", "o", "m", "m", "i", "t", "_", "a", "c", "c", "o", "u", "n", "t", "s">>)
    @@ ("commit_and_undelegate_accounts" :> <<"c", "o", "m", "m", "i", "t", "_", "a", "n", "d", "_", "u", "n", "d", "e", "l", "e", "g", "a", "t", "e", "_", "a", "c", "c", "o", "u", "n", "t", "s">>)
ExtensionChars == <<<<".", "t", "o", "m", "l">>, <<".", "j", "s", "o", "n">>, <<".", "r", "s">>, <<".", "t", "s">>>>
\* the characters of exclude_keywords (github.rs:386)
exclude_keywords == <<<<"m", "a", "g", "i", "c", "b", "l", "o", "c", "k", "-", "l", "a", "b", "s">>>>

\* names as character sequences
OwnerAcme == <<"a", "c">>
OwnerBlocked == <<"M", "a", "g", "i", "c", "B", "l", "o", "c", "k", "-", "L", "a", "b", "s">>
RepoApp == <<"a", "p", "p">>
RepoKit == <<"k", "i", "t">>

\* the text of https://github.com/{owner}/{repo} (github.rs:81)
repo_url_text(o, r) ==
    <<"h", "t", "t", "p", "s", ":", "/", "/", "g", "i", "t", "h", "u", "b", ".", "c", "o", "m", "/">>
    \o o \o <<"/">> \o r

\* github.rs:80-82
get_github_repo(url) ==
    IF parse_github_url(url) # None
    THEN Some(RepoUrl(parse_github_url(url)[1].owner, parse_github_url(url)[1].repo))
    ELSE None

\* github.rs:387-395
\* passes_filter comparing the URL as it is written
passes_filter_case_sensitive(repo_url) ==
    LET url == repo_url_text(repo_url.segments[1], repo_url.segments[2])
    IN ~\E k \in 1..Len(exclude_keywords) : contains(url, to_lowercase(exclude_keywords[k]))
passes_filter(repo_url) ==
    LET url_lower == to_lowercase(repo_url_text(repo_url.segments[1], repo_url.segments[2]))
    IN ~\E k \in 1..Len(exclude_keywords) :
            contains(url_lower, to_lowercase(exclude_keywords[k]))

\* github.rs:122-127
RECURSIVE take(_, _)
take(s, n) == IF n = 0 \/ Len(s) = 0 THEN << >> ELSE <<s[1]>> \o take(Tail(s), n - 1)
is_retained(i) ==
    i.item_type = "blob"
    /\ \E e \in 1..Len(ExtensionChars) : ends_with(i.path, ExtensionChars[e])
\* retained_files without the cap
retained_files_unlimited(entries, n) == SelectSeq(entries, is_retained)
\* retained_files with the cap applied to the listing before the filter
retained_files_truncating_first(entries, n) == SelectSeq(take(entries, n), is_retained)
retained_files(entries, n) == take(SelectSeq(entries, is_retained), n)

\* github.rs:158-173: the keywords of one file's text, in the order of KEYWORDS
\* count_keywords entering every keyword for every file, found in it or not
RECURSIVE count_keywords_recording_every_file(_, _, _, _)
count_keywords_recording_every_file(res, text, kws, link) ==
    IF Len(kws) = 0 THEN res
    ELSE LET kw == kws[1]
             count == matches_count(text, KeywordChars[kw])
             entry == IF kw \in DOMAIN res THEN res[kw] ELSE [count |-> 0, files |-> << >>]
             updated == [count |-> entry.count + count, files |-> Append(entry.files, link)]
         IN count_keywords_recording_every_file(
                [k \in DOMAIN res \cup {kw} |-> IF k = kw THEN updated ELSE res[k]],
                text, Tail(kws), link)

RECURSIVE count_keywords(_, _, _, _)
count_keywords(res, text, kws, link) ==
    IF Len(kws) = 0 THEN res
    ELSE LET kw == kws[1]
             count == matches_count(text, KeywordChars[kw])
             entry == IF kw \in DOMAIN res THEN res[kw] ELSE [count |-> 0, files |-> << >>]
             updated == [count |-> entry.count + count, files |-> Append(entry.files, link)]
         IN count_keywords(IF count > 0
                           THEN [k \in DOMAIN res \cup {kw} |->
                                    IF k = kw THEN updated ELSE res[k]]
                           ELSE res,
                           text, Tail(kws), link)

-----------------------------------------------------------------------------
(* What the network answers.  sent: send() returned Ok; decoded: the body  *)
(* decoded into what the caller asked for.                                 *)
Answer(sent, decoded, value) == [sent |-> sent, decoded |-> decoded, value |-> value]
Failures == {Answer(FALSE, FALSE, << >>), Answer(TRUE, FALSE, << >>)}

\* code search: the html_url of each hit, a file inside a repository
ItemUrl(o, r, path) == Url(TRUE, <<o, r, <<"b", "l", "o", "b">>, <<"H">>, path>>)
SearchItems ==
    {ItemUrl(OwnerAcme, RepoApp, <<"p">>), ItemUrl(OwnerAcme, RepoApp, <<"q">>),
     ItemUrl(OwnerAcme, RepoKit, <<"p">>), ItemUrl(OwnerBlocked, RepoKit, <<"p">>),
     UserUrl(OwnerAcme)}
SearchAnswers == Failures \cup {Answer(TRUE, TRUE, its) : its \in SeqsUpTo(SearchItems, MaxItems)}

\* repository metadata: default_branch, absent or a string
MetaAnswers ==
    Failures \cup {Answer(TRUE, TRUE, b) : b \in {None, Some(<<"m", "a", "i", "n">>)}}

\* the commit: sha, commit.author.date, .email and .name, each absent or a string
CommitAnswers ==
    Failures \cup
    {Answer(TRUE, TRUE, [sha |-> s, date |-> d, email |-> e, name |-> n]) :
        s \in {None, Some(<<"5", "f">>)}, d \in {None, Some(<<"2", "0", "2", "4">>)},
        e \in {None, Some(<<"d", "@", "x">>)}, n \in {None, Some(<<"d", "e", "v">>)}}

\* the tree listing
TreeItem(path, item_type) == [path |-> path, item_type |-> item_type]
PathSrc == <<"s", "r", "c">>
PathReadme == <<"R", ".", "m", "d">>
PathA == <<"a", ".", "r", "s">>
PathB == <<"b", ".", "t", "s">>
Trees ==
    {<< >>,
     <<TreeItem(PathSrc, "tree"), TreeItem(PathA, "blob")>>,
     <<TreeItem(PathA, "blob"), TreeItem(PathReadme, "blob"), TreeItem(PathB, "blob")>>,
     <<TreeItem(PathA, "tree"), TreeItem(PathB, "blob"), TreeItem(PathA, "blob"),
       TreeItem(<<"c", ".", "j", "s", "o", "n">>, "blob")>>}
TreeAnswers == Failures \cup {Answer(TRUE, TRUE, t) : t \in Trees}

\* a file's contents: the base64 does not decode, or the text it decodes to
FileTexts ==
    {<< >>,
     KeywordChars["undelegate_account"],
     <<"#", "[", "C", "o", "m", "m", "i", "t", "]">> \o KeywordChars["delegate_account"]
        \o <<"#", "[", "c", "o", "m", "m", "i", "t", "]">>}
FileAnswers ==
    Failures \cup {Answer(TRUE, TRUE, c) : c \in {None} \cup {Some(t) : t \in FileTexts}}

\* one page of a user's repositories: name and html_url, each absent or a string
UserRepo(name, html_url) == [name |-> name, html_url |-> html_url]
UserRepos ==
    {UserRepo(Some(RepoApp), Some(RepoUrl(OwnerAcme, RepoApp))),
     UserRepo(Some(RepoKit), Some(RepoUrl(OwnerAcme, RepoKit))),
     UserRepo(None, Some(RepoUrl(OwnerAcme, RepoKit))),
     UserRepo(Some(RepoKit), None)}
FirstRepo == UserRepo(Some(RepoApp), Some(RepoUrl(OwnerAcme, RepoApp)))
Pages == {<< >>} \cup {<<r>> : r \in UserRepos} \cup {<<FirstRepo, r>> : r \in UserRepos}
PageAnswers(p) ==
    Failures \cup {Answer(TRUE, TRUE, l) : l \in IF p <= MaxPages THEN Pages ELSE {<< >>}}

\* the limits process_repo is called with
ScanLimits == {1, file_limit}

-----------------------------------------------------------------------------
(* gh_log: e is "request" (send() called), "response" (send() returned a   *)
(* response) or "check" (check_api_request_limit ran on that response);    *)
(* call is "search", "repo", "commit", "tree", "contents" or "user_repos". *)
GhEv(e, call, arg) == [e |-> e, call |-> call, arg |-> arg]
Exchange(call, arg, sent, checked) ==
    <<GhEv("request", call, arg)>>
    \o (IF sent THEN <<GhEv("response", call, arg)>> ELSE << >>)
    \o (IF sent /\ checked THEN <<GhEv("check", call, arg)>> ELSE << >>)

-----------------------------------------------------------------------------
(* The caller of github.rs: it calls search_github_repos once, then        *)
(* handle_github_repo_url and fetch_user_repos, one call after another.    *)
queries == <<"sdk package.json", "kit package.json">>
HandleUrls == {RepoUrl(OwnerAcme, RepoApp), UserUrl(OwnerAcme), UrlEmpty}
GhOrigin == Lit("sheet")

CallSearch ==
    /\ gh_pc = "main"
    /\ gh_calls = 0
    /\ gh_pc' = "search"
    /\ gh_calls' = gh_calls + 1
    /\ query_pos' = 1
    /\ seen_repos' = {}
    /\ UNCHANGED <<mainVars, rateVars, fnVars, gh_answers, tree, fetched, gh_log, gh_fn, gh_ret, gh_url, commit_info,
                   default_branch, limit, files, scan_files_processed, scan_results,
                   page, repo_urls>>

\* github.rs:368-382: what one query leaves in seen_repos
\* seen_after_query losing the repositories seen so far when the query fails
seen_after_query_resetting_on_error(seen, a) ==
    IF a.sent /\ a.decoded
    THEN seen \cup
         {get_github_repo(a.value[k])[1] :
            k \in {j \in 1..Len(a.value) : get_github_repo(a.value[j]) # None}}
    ELSE {}
seen_after_query(seen, a) ==
    IF a.sent /\ a.decoded
    THEN seen \cup
         {get_github_repo(a.value[k])[1] :
            k \in {j \in 1..Len(a.value) : get_github_repo(a.value[j]) # None}}
    ELSE seen

\* github.rs:343-363 and 367-383: one query
SearchCode ==
    /\ gh_pc = "search"
    /\ query_pos <= Len(queries)
    /\ \E a \in SearchAnswers :
         /\ gh_log' = gh_log \o Exchange("search", queries[query_pos], a.sent, FALSE)
         /\ gh_answers' = Append(gh_answers, a)
         /\ seen_repos' = seen_after_query(seen_repos, a)
    /\ query_pos' = query_pos + 1
    /\ UNCHANGED <<mainVars, rateVars, fnVars, tree, fetched, gh_pc, gh_calls, gh_fn, gh_ret, gh_url, commit_info,
                   default_branch, limit, files, scan_files_processed, scan_results,
                   page, repo_urls>>

\* github.rs:385-400: seen_repos.into_iter() yields the set in an order of its own
SearchReturn ==
    /\ gh_pc = "search"
    /\ query_pos > Len(queries)
    /\ LET kept == {u \in seen_repos : passes_filter(u)}
       IN \E order \in DistinctSeqs(kept, Cardinality(kept)) :
            /\ Len(order) = Cardinality(kept)
            /\ gh_ret' = Some(order)
    /\ gh_fn' = "search_github_repos"
    /\ gh_pc' = "returned"
    /\ UNCHANGED <<mainVars, rateVars, fnVars, gh_answers, tree, fetched, gh_log, gh_calls, gh_url, query_pos, seen_repos,
                   commit_info, default_branch, limit, files, scan_files_processed,
                   scan_results, page, repo_urls>>

\* github.rs:292 and 335-340
CallHandle ==
    /\ gh_pc = "main"
    /\ gh_calls < MaxCalls
    /\ gh_calls' = gh_calls + 1
    /\ \E u \in HandleUrls, n \in ScanLimits :
         /\ gh_url' = u
         /\ limit' = n
         /\ IF parse_github_url(u) # None
            THEN /\ gh_pc' = "meta"
                 /\ UNCHANGED <<gh_fn, gh_ret>>
            ELSE /\ gh_pc' = "returned"
                 /\ gh_fn' = "handle_github_repo_url"
                 /\ gh_ret' = Some(handle_github_repo_url(u, None, None, GhOrigin))
    /\ UNCHANGED <<mainVars, rateVars, fnVars, gh_answers, tree, fetched, gh_log, query_pos, seen_repos, commit_info,
                   default_branch, files, scan_files_processed, scan_results, page,
                   repo_urls>>

\* github.rs:185-197: get_last_commit_info, step 1
GetRepoMeta ==
    /\ gh_pc = "meta"
    /\ \E a \in MetaAnswers :
         /\ gh_log' = gh_log \o Exchange("repo", gh_url, a.sent, TRUE)
         /\ gh_answers' = Append(gh_answers, a)
         /\ IF a.sent /\ a.decoded /\ a.value # None
            THEN /\ default_branch' = a.value[1]
                 /\ gh_pc' = "commit"
                 /\ UNCHANGED commit_info
            ELSE /\ commit_info' = None
                 /\ gh_pc' = "tree"
                 /\ UNCHANGED default_branch
    /\ UNCHANGED <<mainVars, rateVars, fnVars, tree, fetched, gh_calls, gh_fn, gh_ret, gh_url, query_pos, seen_repos,
                   limit, files, scan_files_processed, scan_results, page, repo_urls>>

\* github.rs:199-229: get_last_commit_info, step 2
GetCommit ==
    /\ gh_pc = "commit"
    /\ \E a \in CommitAnswers :
         /\ gh_log' = gh_log \o Exchange("commit", default_branch, a.sent, TRUE)
         /\ gh_answers' = Append(gh_answers, a)
         /\ commit_info' =
              IF a.sent /\ a.decoded /\ a.value.sha # None /\ a.value.date # None
              THEN Some([sha |-> a.value.sha[1], date |-> a.value.date[1],
                         email |-> unwrap_or(a.value.email, <<"u", "n", "k", "n", "o", "w", "n">>),
                         name |-> unwrap_or(a.value.name, <<"u", "n", "k", "n", "o", "w", "n">>)])
              ELSE None
    /\ gh_pc' = "tree"
    /\ UNCHANGED <<mainVars, rateVars, fnVars, tree, fetched, gh_calls, gh_fn, gh_ret, gh_url, query_pos, seen_repos,
                   default_branch, limit, files, scan_files_processed, scan_results, page,
                   repo_urls>>

\* github.rs:113, 117, 120, 151, 154, 157: `.ok()?` leaves process_repo with None,
\* whatever results and files_processed hold
\* failed_scan handing out what the scan had gathered so far
failed_scan_returning_partial(res, n) ==
    Some([map |-> res, file_types |-> join(ALLOWED_EXTENSIONS, ", "), files_processed |-> n])
failed_scan(res, n) == None

\* handle_github_repo_url returns what it makes of process_repo's result
\* (github.rs:304-333)
HandleReturns(scan) ==
    /\ gh_pc' = "returned"
    /\ gh_fn' = "handle_github_repo_url"
    /\ gh_ret' = Some(handle_github_repo_url(gh_url, commit_info, scan, GhOrigin))

\* github.rs:102-137: the tree listing and the files retained from it
FetchTree ==
    /\ gh_pc = "tree"
    /\ \E a \in TreeAnswers :
         /\ gh_log' = gh_log \o Exchange("tree", gh_url, a.sent, TRUE)
         /\ gh_answers' = Append(gh_answers, a)
         /\ IF a.sent /\ a.decoded
            THEN /\ tree' = Some(a.value)
                 /\ files' = retained_files(a.value, limit)
                 /\ scan_files_processed' = Len(retained_files(a.value, limit))
                 /\ scan_results' = << >>
                 /\ gh_pc' = "files"
                 /\ UNCHANGED <<gh_fn, gh_ret>>
            ELSE /\ HandleReturns(failed_scan(scan_results, scan_files_processed))
                 /\ UNCHANGED <<tree, files, scan_files_processed, scan_results>>
    /\ UNCHANGED <<mainVars, rateVars, fnVars, fetched, gh_calls, gh_url, query_pos, seen_repos, commit_info,
                   default_branch, limit, page, repo_urls>>

\* github.rs:139-174: one retained file
FetchFile ==
    /\ gh_pc = "files"
    /\ files # << >>
    /\ \E a \in FileAnswers :
         /\ gh_log' = gh_log \o Exchange("contents", files[1].path, a.sent, TRUE)
         /\ gh_answers' = Append(gh_answers, a)
         /\ IF a.sent /\ a.decoded /\ a.value # None
            THEN /\ scan_results' =
                      count_keywords(scan_results, to_lowercase(a.value[1]), KEYWORDS,
                                     Permalink(parse_github_url(gh_url)[1].owner,
                                               parse_github_url(gh_url)[1].repo,
                                               files[1].path))
                 /\ files' = Tail(files)
                 /\ fetched' = Append(fetched, [path |-> files[1].path, text |-> a.value[1]])
                 /\ UNCHANGED <<gh_pc, gh_fn, gh_ret>>
            ELSE /\ HandleReturns(failed_scan(scan_results, scan_files_processed))
                 /\ UNCHANGED <<files, scan_results, fetched>>
    /\ UNCHANGED <<mainVars, rateVars, fnVars, tree, gh_calls, gh_url, query_pos, seen_repos, commit_info,
                   default_branch, limit, scan_files_processed, page, repo_urls>>

\* github.rs:176
ProcessRepoReturn ==
    /\ gh_pc = "files"
    /\ files = << >>
    /\ HandleReturns(Some([map |-> scan_results,
                           file_types |-> join(ALLOWED_EXTENSIONS, ", "),
                           files_processed |-> scan_files_processed]))
    /\ UNCHANGED <<mainVars, rateVars, fnVars, gh_answers, tree, fetched, gh_log, gh_calls, gh_url, query_pos, seen_repos,
                   commit_info, default_branch, limit, files, scan_files_processed,
                   scan_results, page, repo_urls>>

CallFetchUserRepos ==
    /\ gh_pc = "main"
    /\ gh_calls < MaxCalls
    /\ gh_calls' = gh_calls + 1
    /\ gh_pc' = "pages"
    /\ page' = 1
    /\ repo_urls' = << >>
    /\ UNCHANGED <<mainVars, rateVars, fnVars, gh_answers, tree, fetched, gh_log, gh_fn, gh_ret, gh_url, query_pos, seen_repos,
                   commit_info, default_branch, limit, files, scan_files_processed,
                   scan_results>>

\* github.rs:264-271: the html_url of every entry that has a name and an html_url
\* page_urls pushing the entries of a page last to first
page_urls_reversed(l) ==
    LET both == SelectSeq(l, LAMBDA r : r.name # None /\ r.html_url # None)
    IN [k \in 1..Len(both) |-> both[Len(both) + 1 - k].html_url[1]]
page_urls(l) ==
    LET both == SelectSeq(l, LAMBDA r : r.name # None /\ r.html_url # None)
    IN [k \in 1..Len(both) |-> both[k].html_url[1]]

\* github.rs:240-280: one pass of the loop, and the return when it breaks
FetchPage ==
    /\ gh_pc = "pages"
    /\ \E a \in PageAnswers(page) :
         /\ gh_log' = gh_log \o Exchange("user_repos", page, a.sent, TRUE)
         /\ gh_answers' = Append(gh_answers, a)
         /\ IF a.sent /\ a.decoded /\ a.value # << >>
            THEN /\ repo_urls' = repo_urls \o page_urls(a.value)
                 /\ page' = page + 1
                 /\ UNCHANGED <<gh_pc, gh_fn, gh_ret>>
            ELSE /\ gh_pc' = "returned"
                 /\ gh_fn' = "fetch_user_repos"
                 /\ gh_ret' = Some([repos |-> repo_urls, total |-> Len(repo_urls)])
                 /\ UNCHANGED <<repo_urls, page>>
    /\ UNCHANGED <<mainVars, rateVars, fnVars, tree, fetched, gh_calls, gh_url, query_pos, seen_repos, commit_info,
                   default_branch, limit, files, scan_files_processed, scan_results>>

\* the caller goes on; the locals of the function that returned are gone
Resume ==
    /\ gh_pc = "returned"
    /\ gh_pc' = "main"
    /\ gh_fn' = ""
    /\ gh_ret' = None
    /\ gh_url' = UrlEmpty
    /\ query_pos' = 1
    /\ seen_repos' = {}
    /\ commit_info' = None
    /\ default_branch' = EmptyStr
    /\ limit' = 0
    /\ files' = << >>
    /\ scan_files_processed' = 0
    /\ scan_results' = << >>
    /\ page' = 1
    /\ repo_urls' = << >>
    /\ tree' = None
    /\ fetched' = << >>
    /\ gh_answers' = << >>
    /\ UNCHANGED <<mainVars, rateVars, fnVars, gh_log, gh_calls>>

InitGitHub == IdleMain /\ IdleRate /\ IdleFn /\ GhAtRest("main")

NextGitHub ==
    \/ CallSearch \/ SearchCode \/ SearchReturn
    \/ CallHandle \/ GetRepoMeta \/ GetCommit \/ FetchTree \/ FetchFile \/ ProcessRepoReturn
    \/ CallFetchUserRepos \/ FetchPage
    \/ Resume

SpecGitHub == InitGitHub /\ [][NextGitHub]_vars

\* fetch_user_repos runs on: tokio drives the future to its next await and the
\* request it awaits comes back (github.rs:246-261)
FairSpecGitHub == SpecGitHub /\ WF_vars(FetchPage)

-----------------------------------------------------------------------------
(* Functions called on their own, on arguments of their parameter types.   *)

\* github.rs:158-161: the occurrences of kw in the decoded content of one file
\* keyword_count matching the content as it was written
keyword_count_case_sensitive(decoded, kw) == matches_count(decoded, kw)
keyword_count(decoded, kw) == matches_count(to_lowercase(decoded), kw)

\* str::split
RECURSIVE split(_, _)
split(s, sep) ==
    IF \E i \in 1..Len(s) : s[i] = sep
    THEN LET i == CHOOSE i \in 1..Len(s) : s[i] = sep /\ \A j \in 1..(i - 1) : s[j] # sep
         IN <<SubSeq(s, 1, i - 1)>> \o split(SubSeq(s, i + 1, Len(s)), sep)
    ELSE <<s>>

\* Url::parse(url) and path_segments() on the text of an https URL (github.rs:61-65):
\* a text without scheme or host does not parse; the query and the fragment are
\* not part of the path; the path of a bare host is "/"; the segments are what
\* follows the first "/" of the path, split at "/"
HttpsPrefix == <<"h", "t", "t", "p", "s", ":", "/", "/">>
url_parse(text) ==
    IF Len(text) > Len(HttpsPrefix) /\ SubSeq(text, 1, Len(HttpsPrefix)) = HttpsPrefix
    THEN LET rest == SubSeq(text, Len(HttpsPrefix) + 1, Len(text))
             stops == {i \in 1..Len(rest) : rest[i] \in {"?", "#"}}
             cut == IF stops = {} THEN Len(rest) + 1
                    ELSE CHOOSE i \in stops : \A j \in stops : i <= j
             hier == SubSeq(rest, 1, cut - 1)
             host == split(hier, "/")[1]
             path == IF Len(host) = Len(hier) THEN <<"/">>
                     ELSE SubSeq(hier, Len(host) + 1, Len(hier))
         IN IF Len(host) = 0 THEN Url(FALSE, << >>)
            ELSE Url(TRUE, split(Tail(path), "/"))
    ELSE Url(FALSE, << >>)

\* the arguments the functions are called on
UrlTexts ==
    {<<"h", "t", "t", "p", "s", ":", "/", "/", "g", "i", "t", "h", "u", "b", ".", "c", "o", "m", "/", "A", "c", "/", "A", "p">>,
     <<"h", "t", "t", "p", "s", ":", "/", "/", "g", "i", "t", "h", "u", "b", ".", "c", "o", "m", "/", "A", "c">>,
     <<"h", "t", "t", "p", "s", ":", "/", "/", "g", "i", "t", "h", "u", "b", ".", "c", "o", "m", "/", "A", "c", "/", "A", "p", "/">>,
     <<"h", "t", "t", "p", "s", ":", "/", "/", "g", "i", "t", "h", "u", "b", ".", "c", "o", "m", "/", "A", "c", "/", "A", "p", "/", "x">>,
     <<"h", "t", "t", "p", "s", ":", "/", "/", "g", "i", "t", "h", "u", "b", ".", "c", "o", "m", "/", "A", "c", "/">>,
     <<"h", "t", "t", "p", "s", ":", "/", "/", "g", "i", "t", "h", "u", "b", ".", "c", "o", "m">>,
     <<"h", "t", "t", "p", "s", ":", "/", "/", "g", "i", "t", "h", "u", "b", ".", "c", "o", "m", "/">>,
     <<"h", "t", "t", "p", "s", ":", "/", "/", "g", "i", "t", "h", "u", "b", ".", "c", "o", "m", "/", "A", "c", "/", "A", "p", "?", "t">>,
     <<"g", "i", "t", "h", "u", "b", ".", "c", "o", "m", "/", "A", "c", "/", "A", "p">>,
     <<"A", "c">>,
     <<>>}
FileContents ==
    {<<"F", "o", "o", "F", "o", "o", "F", "o", "o">>,
     <<"a", "a", "a">>,
     <<"A", "a", "A">>,
     <<"#", "[", "C", "o", "m", "m", "i", "t", "]", "#", "[", "c", "o", "m", "m", "i", "t", "]">>,
     <<"x", "f", "o", "o">>,
     <<>>}
KeywordArgs ==
    {<<"f", "o", "o">>,
     <<"F", "o", "o">>,
     <<"a", "a">>,
     <<"#", "[", "c", "o", "m", "m", "i", "t", "]">>}
FormattedRecord ==
    format_for_mapping(OwnerAcme, RepoApp, <<"5", "f">>, <<"2", "0", "2", "4">>,
                       ("delegate_account" :>
                          [count |-> 2, files |-> <<Permalink(OwnerAcme, RepoApp, PathA)>>]),
                       <<"d", "@", "x">>, <<"d", "e", "v">>, Some(GhOrigin),
                       join(ALLOWED_EXTENSIONS, ", "), 1)
Records ==
    {GitHubUpdateDataDefault,
     FormattedRecord,
     [FormattedRecord EXCEPT !.location = Some(<<"s", "g">>)],
     [FormattedRecord EXCEPT !.location = Some(EmptyStr), !.files_processed = EmptyStr],
     [GitHubUpdateDataDefault EXCEPT !.owner = <<"x">>],
     [GitHubUpdateDataDefault EXCEPT !.location = Some(EmptyStr)],
     [GitHubUpdateDataDefault EXCEPT !.wallet = Some(<<"w">>)],
     [GitHubUpdateDataDefault EXCEPT
        !.keyword_counts = ("#[commit]" :> [count |-> 1, files |-> <<PathA>>])]}
FieldLists == {fields, <<"location">>, <<"snapshot_url", "wallet">>, << >>}
\* the sheet holds one data row after the rows main skips
FnColumnSets == {{}, {"location", "files_processed"}}
FnRowIndexes == {row_skip, row_skip + 1}

FnArgs(f) ==
    CASE f = "keyword_count" ->
            {[decoded |-> d, kw |-> k] : d \in FileContents, k \in KeywordArgs}
      [] f = "classify_github_url" -> {[url |-> u] : u \in UrlTexts}
      [] f = "is_empty" -> {[self |-> r] : r \in Records}
      [] f = "add_fields_if_exist" ->
            {[self |-> r, fields |-> l, row_index |-> i] :
                r \in Records, l \in FieldLists, i \in FnRowIndexes}

InitFn ==
    /\ IdleRate
    /\ IdleGh
    /\ pc = "idle"
    /\ filtered_repo_urls = << >>
    /\ search_pos = 1
    /\ search_row_idx = 2
    /\ idx = row_skip
    /\ row_reading = 2 + row_skip
    /\ owner = EmptyStr
    /\ user_repos = << >>
    /\ final_results = << >>
    /\ esDocs = {}
    /\ log = << >>
    /\ abortCause = ""
    /\ results_json = None
    /\ fn_pc = "called"
    /\ fn_name \in {"keyword_count", "classify_github_url", "is_empty", "add_fields_if_exist"}
    /\ fn_args \in FnArgs(fn_name)
    /\ fn_ret = << >>
    /\ IF fn_name = "add_fields_if_exist"
       THEN repos = <<RepoUrl(OwnerAcme, RepoApp)>> /\ extra_columns \in FnColumnSets
       ELSE repos = << >> /\ extra_columns = {}

\* the function called returns
FnReturns(value) ==
    /\ fn_pc' = "returned"
    /\ fn_ret' = value
    /\ UNCHANGED <<mainVars, rateVars, ghVars, fn_name, fn_args>>

KeywordCount ==
    /\ fn_pc = "called"
    /\ fn_name = "keyword_count"
    /\ FnReturns(keyword_count(fn_args.decoded, fn_args.kw))

ClassifyGithubUrl ==
    /\ fn_pc = "called"
    /\ fn_name = "classify_github_url"
    /\ FnReturns(classify_github_url(url_parse(fn_args.url)))

IsEmpty ==
    /\ fn_pc = "called"
    /\ fn_name = "is_empty"
    /\ FnReturns(is_empty(fn_args.self))

AddFieldsIfExist ==
    /\ fn_pc = "called"
    /\ fn_name = "add_fields_if_exist"
    /\ FnReturns(add_fields_if_exist(fn_args.self, fn_args.fields, fn_args.row_index))

NextFn == KeywordCount \/ ClassifyGithubUrl \/ IsEmpty \/ AddFieldsIfExist

SpecFn == InitFn /\ [][NextFn]_vars

-----------------------------------------------------------------------------
(* Reading a response's headers: the number a header states, when it       *)
(* states one.                                                             *)
HeaderStates(h) == h # None /\ h[1].ascii
RemainingStated == HeaderStates(remaining_header) /\ parse_i32(remaining_header[1].text) # None
ResetStated == HeaderStates(reset_header) /\ parse_i64(reset_header[1].text) # None
RemainingValue == parse_i32(remaining_header[1].text)[1]
ResetValue == parse_i64(reset_header[1].text)[1]

RECURSIVE SumSeq(_)
SumSeq(q) == IF Len(q) = 0 THEN 0 ELSE q[1] + SumSeq(Tail(q))

\* the clock when check_api_request_limit was called
ArrivalClock == clock - SumSeq(sleeps)
StillNotices == SelectSeq(notices, LAMBDA n : n.kind = "still")

(* C9: with remaining <= 1 and reset - now = w > 0 the caller has slept    *)
(* exactly w seconds when it goes on, in chunks of at most 60 seconds,     *)
(* each chunk that leaves wait followed by a notice of the wait left; with *)
(* remaining > 1 it never sleeps; and the wait always ends.                *)
C9_Suspended ==
    /\ (RemainingStated /\ RemainingValue <= 1 /\ ResetStated
        /\ ResetValue - ArrivalClock > 0 /\ rl_pc \in {"returned", "next_call"})
       => /\ SumSeq(sleeps) = ResetValue - ArrivalClock
          /\ clock = ResetValue
    /\ \A k \in 1..Len(sleeps) : 0 < sleeps[k] /\ sleeps[k] <= 60
    /\ rl_pc \in {"sleeping", "returned", "next_call"}
       => /\ Len(StillNotices) =
               Cardinality({k \in 1..Len(sleeps) :
                              SumSeq(SubSeq(sleeps, 1, k)) < SumSeq(sleeps) + wait_time})
          /\ \A k \in 1..Len(StillNotices) :
                StillNotices[k].secs
                   = SumSeq(sleeps) + wait_time - SumSeq(SubSeq(sleeps, 1, k))
    /\ (RemainingStated /\ RemainingValue > 1)
       => (sleeps = << >> /\ rl_pc # "sleeping")

C9_RateLimitSuspension ==
    /\ []C9_Suspended
    /\ (rl_pc = "called") ~> (rl_pc = "next_call")

\* a wait of more than two chunks has been slept through, with its two notices
C9_Witness ==
    /\ rl_pc = "next_call"
    /\ RemainingStated /\ RemainingValue = 1
    /\ Len(sleeps) = 3
    /\ Len(StillNotices) = 2

(* C10: a response whose remaining or reset header is missing or           *)
(* unparsable never suspends the caller.                                   *)
C10_NoSuspensionOnBadHeader ==
    (~RemainingStated \/ ~ResetStated) => (sleeps = << >> /\ rl_pc # "sleeping")

-----------------------------------------------------------------------------
GhIdx == 1..Len(gh_log)

(* C8: between any two consecutive GitHub requests, the earlier of which   *)
(* got a response, check_api_request_limit has run on that response.       *)
C8_CheckBetweenRequests ==
    \A i, j \in GhIdx :
        (/\ i < j
         /\ gh_log[i].e = "request"
         /\ gh_log[j].e = "request"
         /\ \A k \in GhIdx : (i < k /\ k < j) => gh_log[k].e # "request"
         /\ \E k \in GhIdx : i < k /\ k < j /\ gh_log[k].e = "response")
        => \E k \in GhIdx : i < k /\ k < j /\ gh_log[k].e = "check"

-----------------------------------------------------------------------------
(* One scan, seen from where handle_github_repo_url has returned.          *)
ScanReturned ==
    gh_pc = "returned" /\ gh_fn = "handle_github_repo_url" /\ parse_github_url(gh_url) # None
ScanSucceeded == ScanReturned /\ gh_ret[1].error = None
\* the requests of the current scan follow its tree request
LastTreeRequest ==
    LET T == {i \in GhIdx : gh_log[i].e = "request" /\ gh_log[i].call = "tree"}
    IN IF T = {} THEN 0 ELSE CHOOSE i \in T : \A j \in T : j <= i
ContentsSince(e) ==
    Cardinality({i \in GhIdx : i > LastTreeRequest /\ gh_log[i].call = "contents"
                                /\ gh_log[i].e = e})

(* C11: a successful scan lists at most `limit` files under any keyword,   *)
(* and the files_processed it returns is the number of files whose content *)
(* was fetched during the scan.                                            *)
C11_ScanWithinLimit ==
    ScanSucceeded =>
        /\ \A kw \in DOMAIN gh_ret[1].data.keyword_counts :
               Len(gh_ret[1].data.keyword_counts[kw].files) <= limit
        /\ gh_ret[1].data.files_processed = to_string(ContentsSince("response"))
        /\ ContentsSince("response") = Len(fetched)

\* a scan capped at one file of a listing with two eligible files found a keyword
C11_Witness ==
    /\ ScanSucceeded
    /\ limit = 1
    /\ Len(SelectSeq(tree[1], is_retained)) = 2
    /\ Len(fetched) = 1
    /\ DOMAIN gh_ret[1].data.keyword_counts # {}

\* the occurrences of a keyword of KEYWORDS in one fetched file
OccurrencesIn(f, kw) == matches_count(to_lowercase(f.text), KeywordChars[kw])
RECURSIVE TotalOccurrences(_, _)
TotalOccurrences(fs, kw) ==
    IF Len(fs) = 0 THEN 0 ELSE OccurrencesIn(fs[1], kw) + TotalOccurrences(Tail(fs), kw)
RECURSIVE FilesWith(_, _)
FilesWith(fs, kw) ==
    IF Len(fs) = 0 THEN << >>
    ELSE (IF OccurrencesIn(fs[1], kw) > 0 THEN <<fs[1]>> ELSE << >>) \o FilesWith(Tail(fs), kw)

(* C12: after a successful scan each keyword's files list holds one        *)
(* permalink for every scanned file the keyword occurs in, in scan order,  *)
(* its count is the sum of its occurrences over the files, and a keyword   *)
(* that occurs in no file has no key.                                      *)
C12_KeywordMapMatchesFiles ==
    ScanSucceeded =>
        \A k \in 1..Len(KEYWORDS) :
            LET kw == KEYWORDS[k]
                hits == FilesWith(fetched, kw)
                map == gh_ret[1].data.keyword_counts
            IN IF hits = << >>
               THEN kw \notin DOMAIN map
               ELSE /\ kw \in DOMAIN map
                    /\ map[kw].count = TotalOccurrences(fetched, kw)
                    /\ map[kw].files =
                         [i \in 1..Len(hits) |->
                            Permalink(parse_github_url(gh_url)[1].owner,
                                      parse_github_url(gh_url)[1].repo, hits[i].path)]

\* two files were scanned; one keyword occurs in both, another in one of them only
C12_Witness ==
    /\ ScanSucceeded
    /\ Len(fetched) = 2
    /\ Len(FilesWith(fetched, "delegate_account")) = 2
    /\ fetched[1].path # fetched[2].path
    /\ Len(FilesWith(fetched, "undelegate_account")) = 1
    /\ TotalOccurrences(fetched, "#[commit]") = 2
    /\ Len(FilesWith(fetched, "#[ephemeral]")) = 0

-----------------------------------------------------------------------------
(* Counting without regard to letter case: the occurrences found from the  *)
(* left, none overlapping another.                                         *)
SameLetter(a, b) ==
    a = b \/ \E i \in 1..Len(UpperCase) : {a, b} = {UpperCase[i], LowerCase[i]}
MatchesIgnoringCase(s, pat) ==
    Len(s) = Len(pat) /\ \A i \in 1..Len(s) : SameLetter(s[i], pat[i])
RECURSIVE OccurrencesIgnoringCase(_, _)
OccurrencesIgnoringCase(text, pat) ==
    IF Len(text) < Len(pat) THEN 0
    ELSE IF MatchesIgnoringCase(SubSeq(text, 1, Len(pat)), pat)
         THEN 1 + OccurrencesIgnoringCase(SubSeq(text, Len(pat) + 1, Len(text)), pat)
         ELSE OccurrencesIgnoringCase(Tail(text), pat)
HasUpperCase(s) == \E i \in 1..Len(s), k \in 1..Len(UpperCase) : s[i] = UpperCase[k]
KeywordCounted == fn_pc = "returned" /\ fn_name = "keyword_count"

(* C13, as claimed: whatever the letter case of the text and of the        *)
(* keyword, the count of a keyword in a file is the number of its          *)
(* non-overlapping occurrences in the text compared ignoring case.         *)
C13_CountIgnoresCase ==
    KeywordCounted => fn_ret = OccurrencesIgnoringCase(fn_args.decoded, fn_args.kw)

(* C13, amended: whatever the letter case of the text, the count of a      *)
(* keyword that has no upper-case letter is the number of its              *)
(* non-overlapping occurrences in the text compared ignoring case.         *)
C13_CountIgnoresCaseOfText ==
    (KeywordCounted /\ ~HasUpperCase(fn_args.kw))
        => fn_ret = OccurrencesIgnoringCase(fn_args.decoded, fn_args.kw)

\* "FooFooFoo" counted for "foo" gives 3
C13_Witness ==
    /\ KeywordCounted
    /\ fn_args.decoded = <<"F", "o", "o", "F", "o", "o", "F", "o", "o">>
    /\ fn_args.kw = <<"f", "o", "o">>
    /\ fn_ret = 3

-----------------------------------------------------------------------------
IsEmptyReturned == fn_pc = "returned" /\ fn_name = "is_empty"

(* C15: is_empty returns true if and only if every string field is empty,  *)
(* every optional field is None and the keyword map is empty; a record     *)
(* with an optional field set, even to the empty string, is not empty.     *)
C15_EmptyIffNothingSet ==
    IsEmptyReturned =>
        (fn_ret <=> /\ \A f \in StringFields : fn_args.self[f] = EmptyStr
                    /\ \A f \in OptionFields : fn_args.self[f] = None
                    /\ DOMAIN fn_args.self.keyword_counts = {})

-----------------------------------------------------------------------------
AddFieldsReturned == fn_pc = "returned" /\ fn_name = "add_fields_if_exist"
NamedFields == {fn_args.fields[i] : i \in 1..Len(fn_args.fields)}
FieldIsEmpty(r, f) ==
    \/ f \in StringFields /\ r[f] = EmptyStr
    \/ f \in OptionFields /\ r[f] \in {None, Some(EmptyStr)}
\* the column's value at the row index, as the field holds it
ColumnValueFor(f) ==
    IF column_get(f, fn_args.row_index) = None THEN None
    ELSE IF f \in OptionFields THEN Some(Some(column_get(f, fn_args.row_index)[1]))
         ELSE Some(column_get(f, fn_args.row_index)[1])

(* C16: add_fields_if_exist leaves every non-empty field and every field   *)
(* not named in the field list as it was, and changes a named empty or     *)
(* unset field only to the value its column holds at the row index.        *)
C16_EnrichmentFrame ==
    AddFieldsReturned =>
        \A f \in DOMAIN fn_args.self :
            /\ ~FieldIsEmpty(fn_args.self, f) => fn_ret[f] = fn_args.self[f]
            /\ f \notin NamedFields => fn_ret[f] = fn_args.self[f]
            /\ fn_ret[f] # fn_args.self[f]
                 => ColumnValueFor(f) # None /\ fn_ret[f] = ColumnValueFor(f)[1]

\* a named field that was set was kept although its column holds another value at
\* the row, and a named field that was unset was filled from its column
C16_Witness ==
    /\ AddFieldsReturned
    /\ "snapshot_url" \in NamedFields
    /\ fn_args.self.snapshot_url # EmptyStr
    /\ ColumnValueFor("snapshot_url") # None
    /\ ColumnValueFor("snapshot_url")[1] # fn_args.self.snapshot_url
    /\ fn_ret.snapshot_url = fn_args.self.snapshot_url
    /\ "location" \in NamedFields
    /\ fn_args.self.location = None
    /\ fn_ret.location # None

-----------------------------------------------------------------------------
(* The path segments a URL text names: those of its path, a bare host      *)
(* (with or without the final "/") naming none.                            *)
Classified == fn_pc = "returned" /\ fn_name = "classify_github_url"
TextParses == url_parse(fn_args.url).parsed
NamedSegments ==
    IF url_parse(fn_args.url).segments = <<EmptyStr>> THEN << >>
    ELSE url_parse(fn_args.url).segments

(* C17: for a URL whose path has exactly two segments classify_github_url  *)
(* returns Repo, owner the first segment and repo_name the second,         *)
(* character for character.                                                *)
C17_TwoSegmentsGiveRepo ==
    (Classified /\ TextParses /\ Len(NamedSegments) = 2)
        => fn_ret = [kind |-> "Repo", owner |-> NamedSegments[1],
                     repo_name |-> NamedSegments[2]]

\* https://github.com/Ac/Ap is the repository Ap of Ac, capitals kept
C17_Witness ==
    /\ Classified
    /\ fn_ret = [kind |-> "Repo", owner |-> <<"A", "c">>, repo_name |-> <<"A", "p">>]

(* C18: classify_github_url returns User exactly for a URL with one path   *)
(* segment, and Invalid for a text that does not parse, for more than two  *)
(* segments and for a bare host.                                           *)
C18_UserIffOneSegment ==
    Classified =>
        /\ fn_ret.kind = "User" <=> (TextParses /\ Len(NamedSegments) = 1)
        /\ (~TextParses \/ Len(NamedSegments) > 2 \/ Len(NamedSegments) = 0)
               => fn_ret.kind = "Invalid"

-----------------------------------------------------------------------------
ScanFailure == Some(Lit("Failed to process repo data"))

(* C19: when the tree listing fails, or the fetch or the decoding of one   *)
(* file fails, process_repo returns None, nothing of the keyword map       *)
(* gathered so far is returned, and no file is fetched after the failing   *)
(* one.                                                                    *)
C19_ScanAllOrNothing ==
    /\ (ScanReturned /\ (tree = None \/ ContentsSince("request") > Len(fetched)))
          => /\ gh_ret[1].error = ScanFailure
             /\ gh_ret[1].data = GitHubUpdateDataDefault
    /\ (ScanReturned /\ tree = None) => ContentsSince("request") = 0
    /\ gh_pc = "files" => ContentsSince("request") = Len(fetched)
    /\ ScanReturned => ContentsSince("request") <= Len(fetched) + 1

\* the second of three retained files failed after the first had a keyword: the
\* third was not asked for and the map was dropped
C19_Witness ==
    /\ ScanReturned
    /\ Len(fetched) = 1
    /\ scan_results # << >>
    /\ ContentsSince("request") = 2
    /\ Len(files) = 2
    /\ gh_ret[1].data = GitHubUpdateDataDefault

-----------------------------------------------------------------------------
(* The entries of the tree listing a scan may fetch: blobs whose path ends *)
(* with an allowed extension.                                              *)
Eligible ==
    {i \in 1..Len(tree[1]) :
        /\ tree[1][i].item_type = "blob"
        /\ \E e \in 1..Len(ExtensionChars) :
              LET p == tree[1][i].path
                  x == ExtensionChars[e]
              IN Len(x) <= Len(p) /\ \A k \in 1..Len(x) : p[Len(p) - Len(x) + k] = x[k]}
\* the k-th eligible entry in listing order
EligibleAt(k) == CHOOSE i \in Eligible : Cardinality({j \in Eligible : j <= i}) = k
\* the files of the scan: those fetched, then those still to fetch
RetainedPaths ==
    [k \in 1..Len(fetched) |-> fetched[k].path] \o [k \in 1..Len(files) |-> files[k].path]

(* C20: the files retained for fetching are the first min(limit, n) of the *)
(* n eligible entries of the tree listing, in listing order, and a scan    *)
(* sends at most `limit` content requests.                                 *)
C20_RetainedAreFirstEligible ==
    ((gh_pc = "files" \/ ScanReturned) /\ tree # None)
        => /\ RetainedPaths =
                [k \in 1..Min(limit, Cardinality(Eligible)) |-> tree[1][EligibleAt(k)].path]
           /\ ContentsSince("request") <= limit

\* a scan capped at one file of a listing that starts with a directory and has
\* three eligible entries retained the first eligible one
C20_Witness ==
    /\ gh_pc = "files"
    /\ limit = 1
    /\ 1 \notin Eligible
    /\ Cardinality(Eligible) = 3
    /\ RetainedPaths = <<tree[1][EligibleAt(1)].path>>

-----------------------------------------------------------------------------
\* the requests the call in progress has sent, oldest first
RequestsOfCall ==
    LET reqs == SelectSeq(gh_log, LAMBDA ev : ev.e = "request")
    IN SubSeq(reqs, Len(reqs) - Len(gh_answers) + 1, Len(reqs))
Enumerating == gh_pc = "pages"
EnumerationReturned == gh_pc = "returned" /\ gh_fn = "fetch_user_repos"
\* a page that ends the enumeration: empty, or failed in transport or decoding
EndsEnumeration(a) == ~a.sent \/ ~a.decoded \/ a.value = << >>
\* the repository URLs of pages 1..n, in listing order; an entry of a page
\* names a repository when it has a name and an html_url
RECURSIVE UrlsOfEntries(_)
UrlsOfEntries(l) ==
    IF l = << >> THEN << >>
    ELSE (IF l[1].name # None /\ l[1].html_url # None THEN <<l[1].html_url[1]>> ELSE << >>)
         \o UrlsOfEntries(Tail(l))
RECURSIVE UrlsOfPages(_)
UrlsOfPages(n) ==
    IF n = 0 THEN << >> ELSE UrlsOfPages(n - 1) \o UrlsOfEntries(gh_answers[n].value)

C21_PagesInOrder ==
    (Enumerating \/ EnumerationReturned) =>
        /\ Len(RequestsOfCall) = Len(gh_answers)
        /\ \A k \in 1..Len(gh_answers) :
              /\ RequestsOfCall[k].call = "user_repos"
              /\ RequestsOfCall[k].arg = k
              /\ k < Len(gh_answers) => ~EndsEnumeration(gh_answers[k])
        /\ Enumerating =>
              /\ \A k \in 1..Len(gh_answers) : ~EndsEnumeration(gh_answers[k])
              /\ page = Len(gh_answers) + 1
        /\ EnumerationReturned =>
              /\ gh_answers # << >>
              /\ EndsEnumeration(gh_answers[Len(gh_answers)])
              /\ gh_ret[1].repos = UrlsOfPages(Len(gh_answers) - 1)
              /\ gh_ret[1].total = Len(gh_ret[1].repos)

(* C21: fetch_user_repos requests pages 1, 2, 3, ... with none skipped or  *)
(* repeated, stops at the first page that is empty or fails in transport  *)
(* or decoding, returns the URLs of all earlier pages in listing order,   *)
(* and returns once the API answers with such a page.                     *)
C21_Enumeration ==
    /\ []C21_PagesInOrder
    /\ Enumerating ~> EnumerationReturned

\* two pages were collected, three repositories in all, and the request for
\* page 3 failed in transport
C21_Witness ==
    /\ EnumerationReturned
    /\ Len(gh_answers) = 3
    /\ ~gh_answers[3].sent
    /\ Len(gh_ret[1].repos) = 3
    /\ gh_ret[1].repos[2] # gh_ret[1].repos[3]

-----------------------------------------------------------------------------
\* get_last_commit_info has returned to handle_github_repo_url
LookupDone == gh_pc \in {"tree", "files"} \/ ScanReturned
\* the two steps of the lookup, by what the API answered
MetadataFailed == LET a == gh_answers[1] IN ~a.sent \/ ~a.decoded \/ a.value = None
CommitFailed ==
    LET a == gh_answers[2]
    IN ~a.sent \/ ~a.decoded \/ a.value.sha = None \/ a.value.date = None
LookupFailed == MetadataFailed \/ CommitFailed
Unknown == <<"u", "n", "k", "n", "o", "w", "n">>
\* process_repo ran to its end: the listing and every retained file decoded
ScanCompleted ==
    ScanReturned /\ tree # None /\ files = << >> /\ ContentsSince("request") = Len(fetched)

(* C22: when either step of get_last_commit_info fails the lookup returns  *)
(* None and handle_github_repo_url goes on to the scan with an empty sha   *)
(* and empty author fields; a missing author email or name alone does not  *)
(* fail it and reads "unknown".                                            *)
C22_ProvenanceFallback ==
    LookupDone =>
        /\ LookupFailed <=> commit_info = None
        /\ ~LookupFailed =>
              LET c == gh_answers[2].value
              IN commit_info[1] =
                    [sha |-> c.sha[1], date |-> c.date[1],
                     email |-> IF c.email = None THEN Unknown ELSE c.email[1],
                     name |-> IF c.name = None THEN Unknown ELSE c.name[1]]
        /\ RequestsOfCall[1].call = "repo"
        /\ ~MetadataFailed => RequestsOfCall[2].call = "commit"
        /\ gh_pc # "tree" =>
              RequestsOfCall[IF MetadataFailed THEN 2 ELSE 3].call = "tree"
        /\ ScanCompleted =>
              /\ gh_ret[1].error = None
              /\ gh_ret[1].data.owner = gh_url.segments[1]
              /\ gh_ret[1].data.repo_name = gh_url.segments[2]
              /\ LET d == gh_ret[1].data
                 IN IF LookupFailed
                    THEN /\ d.commit_sha = EmptyStr
                         /\ d.email = EmptyStr
                         /\ d.name = EmptyStr
                         /\ d.commit_date = NowRfc3339
                    ELSE /\ d.commit_sha = commit_info[1].sha
                         /\ d.email = commit_info[1].email
                         /\ d.name = commit_info[1].name
                         /\ d.commit_date = commit_info[1].date

\* the commit came without an author date, and the scan that followed found a keyword
C22_Witness ==
    /\ ScanCompleted
    /\ ~MetadataFailed
    /\ gh_answers[2].decoded
    /\ gh_answers[2].value.sha # None
    /\ gh_answers[2].value.date = None
    /\ gh_ret[1].data.commit_sha = EmptyStr
    /\ gh_ret[1].data.keyword_counts # << >>

\* the commit came without author email and name, and the lookup succeeded
C22_WitnessUnknown ==
    /\ ScanCompleted
    /\ ~LookupFailed
    /\ gh_answers[2].value.email = None
    /\ gh_ret[1].data.email = Unknown

-----------------------------------------------------------------------------
Searching == gh_pc = "search"
SearchReturned == gh_pc = "returned" /\ gh_fn = "search_github_repos"
\* the repository a hit lies in: the first two path segments of its html_url
ParentOf(hit) ==
    IF hit.parsed /\ Len(hit.segments) >= 2
    THEN {RepoUrl(hit.segments[1], hit.segments[2])}
    ELSE {}
\* the repositories the hits of query q lie in; none when the query failed
FoundBy(q) ==
    LET a == gh_answers[q]
    IN IF a.sent /\ a.decoded
       THEN UNION {ParentOf(a.value[k]) : k \in 1..Len(a.value)}
       ELSE {}
\* the URL holds a blocked substring, letter case aside
Blocked(u) ==
    LET text == repo_url_text(u.segments[1], u.segments[2])
    IN \E k \in 1..Len(exclude_keywords) :
          \E i \in 1..Len(text) :
              /\ i + Len(exclude_keywords[k]) - 1 <= Len(text)
              /\ MatchesIgnoringCase(SubSeq(text, i, i + Len(exclude_keywords[k]) - 1),
                                     exclude_keywords[k])

(* C23: the list search_github_repos returns holds each repository URL at  *)
(* most once, whatever queries and files reached it, holds no URL with a   *)
(* blocked substring compared lower-cased, and holds only repositories a   *)
(* hit lies in.                                                            *)
C23_SearchResultIsFilteredSet ==
    SearchReturned =>
        LET r == gh_ret[1]
        IN /\ \A i, j \in 1..Len(r) : r[i] = r[j] => i = j
           /\ \A i \in 1..Len(r) :
                 /\ ~Blocked(r[i])
                 /\ \E q \in 1..Len(gh_answers) : r[i] \in FoundBy(q)

\* both queries hit the same repository, through different files, and it is
\* returned once
C23_Witness ==
    /\ SearchReturned
    /\ Len(gh_answers) = 2
    /\ FoundBy(1) # {} /\ FoundBy(1) = FoundBy(2)
    /\ gh_answers[1].value # gh_answers[2].value
    /\ Len(gh_ret[1]) = 1

(* C24: a query that fails does not end the search: every query is sent,   *)
(* in order, and every repository the other queries found (blocked ones    *)
(* aside) is in the returned list.                                         *)
C24_FailedQuerySkipped ==
    (Searching \/ SearchReturned) =>
        /\ Len(gh_answers) = query_pos - 1
        /\ \A k \in 1..Len(gh_answers) :
              RequestsOfCall[k].call = "search" /\ RequestsOfCall[k].arg = queries[k]
        /\ SearchReturned =>
              /\ Len(gh_answers) = Len(queries)
              /\ \A q \in 1..Len(queries) :
                    \A u \in FoundBy(q) :
                        ~Blocked(u) => \E i \in 1..Len(gh_ret[1]) : gh_ret[1][i] = u

\* the second query failed in transport and the repository the first found is returned
C24_Witness ==
    /\ SearchReturned
    /\ ~gh_answers[2].sent
    /\ FoundBy(1) # {}
    /\ Len(gh_ret[1]) = 1

\* the first query failed in decoding and the repository the second found is returned
C24_WitnessFirstFails ==
    /\ SearchReturned
    /\ gh_answers[1].sent /\ ~gh_answers[1].decoded
    /\ FoundBy(2) # {}
    /\ Len(gh_ret[1]) = 1

-----------------------------------------------------------------------------
\* the record handle_github_repo_url returned for the repository that log position i
\* belongs to
HandledAt(i) ==
    LET H == {h \in 1..i : IsEv(h, "handle") /\ SameRecord(h, i)}
    IN log[CHOOSE h \in H : TRUE].data
HasKeywordMatch(data) == data.keyword_matches # Lit("0")

(* C25: in the expansion of a user, a repository is ingested, pushed to    *)
(* the results or written to the sheet only if its record is non-empty and *)
(* has at least one keyword match.                                         *)
C25_UserPathKeepsOnlyMatches ==
    \A i \in LogIdx :
       (log[i].path = "user" /\ log[i].ev \in {"ingest", "push", "write_row", "write_to_cell"})
       => ~is_empty(HandledAt(i)) /\ HasKeywordMatch(HandledAt(i))

-----------------------------------------------------------------------------
\* the records the run has built, in processing order: what handle_github_repo_url
\* returned without an error message
BuiltRecords ==
    LET built == SelectSeq(log, LAMBDA e : e.ev = "handle" /\ e.ok /\ e.error = None)
    IN [k \in 1..Len(built) |-> built[k].data]
\* the records of the persisted array that are not the empty default
PersistedRecords == SelectSeq(results_json[1], LAMBDA r : r # GitHubUpdateDataDefault)
\* r is the record b, enriched or not: they differ in enrichment fields only
SameRecordAs(r, b) ==
    \A f \in DOMAIN b : f \notin {fields[i] : i \in 1..Len(fields)} => r[f] = b[f]
RunCompleted == pc = "done"

(* C26: results.json is written once, when the run completes and after the *)
(* last repository, and it then holds every record built during the run   *)
(* exactly once, in processing order.                                      *)
C26_ResultsHoldEveryRecord ==
    /\ results_json # None <=> RunCompleted
    /\ RunCompleted =>
          /\ search_pos > Len(filtered_repo_urls) /\ ~SheetLoopHasNext /\ user_repos = << >>
          /\ results_json[1] = final_results
          /\ Len(PersistedRecords) = Len(BuiltRecords)
          /\ \A k \in 1..Len(BuiltRecords) : SameRecordAs(PersistedRecords[k], BuiltRecords[k])

-----------------------------------------------------------------------------
\* the 0-based position in the repository column of the input that log position i
\* belongs to: the loop starts at row_skip and takes up one cell per input
PositionAt(i) ==
    row_skip + Cardinality({k \in 1..i : IsEv(k, "input") /\ log[k].path = "sheet"}) - 1
\* the fields add_fields_if_exist fills for a record built by format_for_mapping:
\* those named in fields that the record leaves unset and the sheet has a column for
Enriched == {f \in OptionFields : f \in extra_columns /\ \E k \in 1..Len(fields) : fields[k] = f}

(* C27: the record ingested for the input at position idx of the repository *)
(* column is enriched, in each enrichment column, with the value at        *)
(* position idx of that column: the value of the row that named it.        *)
C27_EnrichmentRowAligned ==
    \A i \in LogIdx :
       (IsEv(i, "ingest") /\ log[i].path \in {"repo", "user"}) =>
          \A f \in Enriched : log[i].data[f] = Some(Cell(f, PositionAt(i)))

-----------------------------------------------------------------------------
(* C28: whenever the sheet loop is at the head of an iteration or inside   *)
(* one, row_reading is idx + 2, whichever branches the earlier iterations  *)
(* took and however many repositories a user expanded to; every write of   *)
(* the sheet loop goes to the row of the input it belongs to.              *)
C28_RowTracksInput ==
    /\ pc \in {"sheet", "user"} => row_reading = idx + 2
    /\ \A i \in LogIdx :
          (log[i].path \in {"repo", "user", "sheet"}) => log[i].row = PositionAt(i) + 2

\* a user expanded to a repository, a repository row followed it, and the loop is at
\* the head of its third iteration
C28_Witness ==
    /\ pc = "sheet"
    /\ idx = row_skip + 2
    /\ Cardinality({i \in LogIdx : IsEv(i, "handle") /\ log[i].path = "user"}) = 1
    /\ \E i \in LogIdx : IsEv(i, "write_row") /\ log[i].path = "repo" /\ log[i].row = row_skip + 3

-----------------------------------------------------------------------------
HandleReturned == gh_pc = "returned" /\ gh_fn = "handle_github_repo_url"

(* C29: handle_github_repo_url returns an error message exactly when the   *)
(* record it returns is the empty default: a URL that does not parse and a *)
(* failed scan give the default record with a message, whatever the        *)
(* provenance lookup found, and a completed scan gives a non-empty record  *)
(* with no message, even when the lookup failed.                           *)
C29_ErrorIffDefaultRecord ==
    HandleReturned =>
        LET r == gh_ret[1]
        IN /\ r.error # None <=> r.data = GitHubUpdateDataDefault
           /\ r.error # None <=> is_empty(r.data)
           /\ parse_github_url(gh_url) = None => r.error = Some(Lit("Invalid GitHub URL"))
           /\ (ScanReturned /\ ~ScanCompleted) => r.error = Some(Lit("Failed to process repo data"))
           /\ ScanCompleted => r.error = None

\* the lookup found the commit and a file of the scan failed: default record and message
C29_Witness ==
    /\ ScanReturned
    /\ commit_info # None
    /\ tree # None
    /\ ~ScanCompleted
    /\ gh_ret[1].error # None
    /\ is_empty(gh_ret[1].data)

\* the lookup failed and the scan completed: a non-empty record and no message
C29_WitnessNoProvenance ==
    /\ ScanCompleted
    /\ commit_info = None
    /\ gh_ret[1].error = None
    /\ ~is_empty(gh_ret[1].data)

====
